---- MODULE Spec2Model ----
(***************************************************************************)
(* murmgenesis: the dual-core frame/audio pipeline.                        *)
(*                                                                         *)
(* Core 0 runs emulation_loop (src/src/main.c): frame setup, skip          *)
(* decision, emulation into the chip write buffers, render, audio wait,    *)
(* publish.  Core 1 runs sound_core (src/src/main.c), which calls          *)
(* audio_submit and i2s_dma_write_count (src/drivers/audio.c).  The DMA    *)
(* hardware drains the two hardware buffers through two chained channels   *)
(* and raises DMA_IRQ_1, served by audio_dma_irq_handler.                  *)
(*                                                                         *)
(* Sample data is abstracted to tags: a chip buffer slot holds the number  *)
(* of the frame that wrote it, a hardware buffer holds the number of the   *)
(* commit that filled it.                                                  *)
(***************************************************************************)
EXTENDS Integers, Sequences, FiniteSets, TLC

\* ------------------------------------------------------------------ bounds
\* Frames the emulation core runs in the hand-off/DMA specification.
MaxFrames == 4
\* Buffers the DMA hardware plays in the hand-off/DMA specification.
MaxPlays == 5
\* frames published when audio_submit is followed sample by sample
MixFrames == 2
\* frames submitted with audio disabled when the fade is followed
FadeFrames == 2
\* frames the PSG producer is followed through
PsgFrames == 2
\* calls of cmd_queue_push
QueuePushes == 514
\* buffers played by the real-time driver's DMA
RingPlays == 6
\* frames of the scanline loop
LineFrames == 2
\* calls of m68k_run and z80_run
CpuCalls == 3
\* Frames of the deterministic-pattern scenario (E2E scenario B).
PatternFrames == 600
\* Frames of the skip-controller specification.
SkipFrames == 6
\* Frames the two runs side by side emulate.
TwinFrames == 2

\* ------------------------------------------------------- program constants
FRAMESKIP_MAX_CONSECUTIVE == 4
FRAMESKIP_MAX_BACKLOG_FRAMES == 8
FRAMESKIP_RENDER_COST_DEFAULT_US == 4000
FRAMESKIP_DITHER_MASK == 3
FRAMESKIP_RENDER_BURST_LEN == 4
FRAMESKIP_SKIP_THRESHOLD_DIVISOR == 4
FRAMESKIP_SKIP_PAYDOWN_NUM == 3
FRAMESKIP_SKIP_PAYDOWN_DEN == 2
GWENESIS_REFRESH_RATE_NTSC == 60
GWENESIS_REFRESH_RATE_PAL == 50
TARGET_SAMPLES_NTSC == 888
AUDIO_BUFFER_SAMPLES == 1120
DMA_BUFFER_COUNT == 2
PREROLL_BUFFERS == 2
STARTUP_FADE_FRAMES == 120
FADE_SAMPLES == 32
AUDIO_FREQ_DIVISOR == 1009
AUDIO_CMD_QUEUE_SIZE == 512
RING_BUFFER_COUNT == 4
RING_BUFFER_SAMPLES == 888
SAMPLES_PER_CHUNK == 64
LINES_PER_FRAME_NTSC == 262
LINES_PER_FRAME_PAL == 313
Z80_FREQ_DIVISOR == 15
Z80_SLICE_LINES == 16
AUDIO_BUFFER_SIZE == 2048
CLICK_THRESHOLD == 2000

\* A null pointer, and the tag of memory nobody has written since the
\* start-up memset.
NULL == -1
SILENCE == -1

\* -------------------------------------------------------- environment sets
\* Per-frame sample counts a sound chip reports (ym2612_index, sn76489_index).
ChipCounts == {0, TARGET_SAMPLES_NTSC}
\* Measured work time of a frame, render time, and audio wait, microseconds.
WorkTimes == {9000, 60000}
RenderTimes == {3000, 12000}
AudioWaits == {0, 900}
\* Frameskip levels the two runs side by side are configured with.
TwinLevels == {0, 3, 4}

\* Values of video register 10, the line counter's reload value.
Reg10Values == {0, 3}
\* Scanlines during which the 68000 rewrites video or Z80 control registers.
WriteLines == {0, 1, 100, 222, 223, 224, 225, 239, 240, 241, 261}

\* Targets the CPU adapters are run to, master clock cycles.
CpuTargets == {0, 100, 110, 300}
\* Cycles of a 68000 instruction.
M68kCosts == {4, 18}
\* What the Z80 core reports as left of its time slice, Z80 cycles: none,
\* or one cycle overdrawn by the last instruction.
Z80Rems == {0, -1}

\* The real-time driver's two DMA channels (dma_channel_a, dma_channel_b).
Channels == {"A", "B"}

\* ---------------------------------------------------------- pure operators
\* The table as its comments describe it: level 2 renders 4 of 6 frames and
\* level 3 renders 3 of 6.
frameskip_patterns_AsCommented ==
    << <<1, 1>>, <<6, 31>>, <<6, 27>>, <<6, 21>>, <<6, 5>> >>

\* frameskip_patterns[level] = {len, mask}; TLA+ sequences are 1-based.
frameskip_patterns ==
    << <<1, 1>>, <<6, 31>>, <<6, 21>>, <<6, 9>>, <<6, 5>> >>

\* set_frameskip_level: a level above 4 is replaced by 3.
LevelClamp(level) == IF level > 4 THEN 3 ELSE level

\* (mask >> idx) & 1
Bit(mask, idx) == (mask \div (2 ^ idx)) % 2

\* Constant frameskip: render_this_frame from the pattern.
PatternRender(len, mask, fnum) ==
    LET pat_idx == IF len # 0 THEN fnum % len ELSE 0
    IN  Bit(mask, pat_idx) # 0

\* The safety left out: the policy's decision stands.
SafetyRender_NoCap(render, skipped) == render

\* Safety: always render once consecutive_skipped_frames has reached the cap.
SafetyRender(render, skipped) ==
    IF skipped >= FRAMESKIP_MAX_CONSECUTIVE THEN TRUE ELSE render

ForceRender_Ignored(render, force) == render

\* A dimension change forces the frame to render.
ForceRender(render, force) ==
    IF force THEN TRUE ELSE render

\* frameskip_rng = frameskip_rng * 1664525u + 1013904223u.  Only
\* (frameskip_rng & FRAMESKIP_DITHER_MASK) is ever read, and the low byte of
\* the product depends on the low byte of the state alone, so the state is
\* kept modulo 256.
RngStep(rng) == (rng * (1664525 % 256) + (1013904223 % 256)) % 256

\* Frame budget in microseconds.
FrameBudget(is_pal) ==
    1000000 \div (IF is_pal THEN GWENESIS_REFRESH_RATE_PAL
                            ELSE GWENESIS_REFRESH_RATE_NTSC)

EstimatedRenderCost(ema) ==
    IF ema # 0 THEN ema ELSE FRAMESKIP_RENDER_COST_DEFAULT_US

InSkipMode(backlog, ema) ==
    backlog >= (EstimatedRenderCost(ema) \div FRAMESKIP_SKIP_THRESHOLD_DIVISOR)

\* A skip pays the backlog down by one estimated render cost.
Paydown_OneCost(backlog, ema) ==
    IF backlog > EstimatedRenderCost(ema)
    THEN backlog - EstimatedRenderCost(ema) ELSE 0

\* The skip paydown applied when a frame is skipped with backlog > 0.
Paydown(backlog, ema) ==
    LET dec == EstimatedRenderCost(ema)
        pay == (dec * FRAMESKIP_SKIP_PAYDOWN_NUM) \div FRAMESKIP_SKIP_PAYDOWN_DEN
    IN  IF backlog > pay THEN backlog - pay ELSE 0

\* EMA update of the render cost (1/8 smoothing).
EmaUpdate(ema, render_us) ==
    IF ema = 0
    THEN (IF render_us # 0 THEN render_us ELSE FRAMESKIP_RENDER_COST_DEFAULT_US)
    ELSE (ema * 7 + (IF render_us # 0 THEN render_us ELSE ema)) \div 8

\* The backlog update without the reset after a long audio wait.
BacklogUpdate_NoReset(backlog, work, budget, wait) ==
    LET delta == work - budget
        b1 == IF delta > 0 THEN backlog + delta
              ELSE (IF backlog > -delta THEN backlog + delta ELSE 0)
        max_backlog == budget * FRAMESKIP_MAX_BACKLOG_FRAMES
    IN  IF b1 > max_backlog THEN max_backlog ELSE b1

\* Backlog update after the audio wait.
BacklogUpdate(backlog, work, budget, wait) ==
    LET delta == work - budget
        b1 == IF delta > 0 THEN backlog + delta
              ELSE (IF backlog > -delta THEN backlog + delta ELSE 0)
        b2 == IF wait > 500 THEN 0 ELSE b1
        max_backlog == budget * FRAMESKIP_MAX_BACKLOG_FRAMES
    IN  IF b2 > max_backlog THEN max_backlog ELSE b2

AudioWaitOver_NoWait(done, fnum) == TRUE

\* Exit condition of  while (!audio_done && frame_num > 0).
AudioWaitOver(done, fnum) == done \/ fnum = 0

\* The published count is used as it is.
SaneCount_Trusting(n) == n

\* The audio core signals by clearing the flag.
AudioDoneSignal_Cleared == FALSE

\* Signal Core 0 that audio is done: audio_done = true
AudioDoneSignal == TRUE

\* audio_submit: a count outside 0..AUDIO_BUFFER_SAMPLES is treated as 0.
SaneCount(n) == IF n < 0 \/ n > AUDIO_BUFFER_SAMPLES THEN 0 ELSE n

Available(ym, sn) ==
    LET a == IF ym > sn THEN ym ELSE sn
    IN  IF a > TARGET_SAMPLES_NTSC THEN TARGET_SAMPLES_NTSC ELSE a

PrerollIndex_Reversed(preroll) == 1 - preroll

\* Pre-roll fills buffer 0 then buffer 1.
PrerollIndex(preroll) == preroll

\* A buffer is taken whether or not it is free.
ClaimIndex_NoWait(running, preroll, free) ==
    IF ~running THEN PrerollIndex(preroll) ELSE (IF 0 \in free THEN 0 ELSE 1)

\* i2s_dma_write_count: the buffer claimed, or NULL while none can be.
ClaimIndex(running, preroll, free) ==
    IF ~running
    THEN (IF PrerollIndex(preroll) \in 0 .. (DMA_BUFFER_COUNT - 1)
             /\ PrerollIndex(preroll) \in free
          THEN PrerollIndex(preroll) ELSE NULL)
    ELSE (IF free # {} THEN (IF 0 \in free THEN 0 ELSE 1) ELSE NULL)

CommitLength_Available(available) == available

\* The sample count audio_submit passes to i2s_dma_write_count.
CommitLength(available) == TARGET_SAMPLES_NTSC

\* i2s_dma_write_count clamps the count to 1..dma_transfer_count.
ClampCount(n, transfer_count) ==
    LET a == IF n > transfer_count THEN transfer_count ELSE n
    IN  IF a = 0 THEN 1 ELSE a


\* if (mixed > 32767) mixed = 32767; if (mixed < -32768) mixed = -32768;
Clamp16(v) == IF v > 32767 THEN 32767 ELSE IF v < -32768 THEN -32768 ELSE v

\* (lpf_state * 250) >> 8 on a signed 32-bit value: the shift is arithmetic,
\* so the result is the floor of the quotient.
FadeStep(x) == (x * 250) \div 256

\* The silence loop of audio_submit: n samples, each the fade of the one
\* before, starting from the fade state x (the run is built in two halves,
\* the second starting from the last sample of the first).
RECURSIVE FadeRun(_, _)
FadeRun(x, n) ==
    IF n = 0 THEN <<>>
    ELSE IF n = 1 THEN <<FadeStep(x)>>
    ELSE LET h == n \div 2
             a == FadeRun(x, h)
         IN  a \o FadeRun(a[h], n - h)

FadeSamples(lpf) == FadeRun(lpf, TARGET_SAMPLES_NTSC)

\* lpf_state after the silence loop (0 fades to 0).
FadeLast(lpf) ==
    IF lpf = 0 THEN 0 ELSE FadeSamples(lpf)[TARGET_SAMPLES_NTSC]

\* What a chip wrote at index i of its buffer, for the waveforms the
\* environment chooses from.
SampleAt(wave, i) ==
    CASE wave = "zero" -> 0
      [] wave = "pos"  -> 20000
      [] wave = "neg"  -> -20000
      [] wave = "big"  -> 30000
      [] wave = "odd"  -> -3
      [] wave = "ramp" -> (i * 37) - 16000

\* One pass of the mix loop: sum of the chips within their counts, volume,
\* clamp.
MixOne(ymw, snw, ymc, snc, vol, i) ==
    LET a == IF i < ymc THEN SampleAt(ymw, i) ELSE 0
        b == IF i < snc THEN SampleAt(snw, i) ELSE 0
    IN  Clamp16(((a + b) * vol) \div 128)

\* The tail of the buffer is filled with zero.
PadSample_Silence(last_sample) == 0

\* Pad with last sample value.
PadSample(last_sample) == last_sample

\* The mix loop and the pad loop: TARGET_SAMPLES_NTSC mono samples.
NormalSamples(ymw, snw, ymc, snc, vol, available) ==
    [k \in 1 .. TARGET_SAMPLES_NTSC |->
        IF k - 1 < available
        THEN MixOne(ymw, snw, ymc, snc, vol, k - 1)
        ELSE PadSample(MixOne(ymw, snw, ymc, snc, vol, available - 1))]

\* mixed_buffer[i * 2] = mixed_buffer[i * 2 + 1] = sample
Stereo(mono) ==
    [j \in 0 .. (2 * TARGET_SAMPLES_NTSC - 1) |-> mono[(j \div 2) + 1]]

\* One past the highest index the mix loop reads in a chip buffer.
ReadEnd(available, count) == IF count < available THEN count ELSE available

\* audio_set_volume clamps the volume to 0..128.
VolumeClamp(volume) ==
    IF volume < 0 THEN 0 ELSE IF volume > 128 THEN 128 ELSE volume


\* The flush target of a frame: TARGET_SAMPLES_PER_FRAME * AUDIO_FREQ_DIVISOR.
AUDIO_TARGET_CLOCK == TARGET_SAMPLES_NTSC * AUDIO_FREQ_DIVISOR

\* The clock is set to the target the producer was run to.
SN76489ClockAfter_Target(index, target) == target

\* sn76489_clock = sn76489_index * gwenesis_SN76489.divisor
SN76489ClockAfter(index, target) == index * AUDIO_FREQ_DIVISOR

\* gwenesis_SN76489_run(target): the producer's clock and index afterwards.
SN76489Run(clock, index, target) ==
    IF clock >= target THEN [clock |-> clock, index |-> index]
    ELSE LET raised == index + ((target - clock) \div AUDIO_FREQ_DIVISOR)
             capped == IF raised > 4095 THEN 4095 ELSE raised
         IN  IF capped > index
             THEN [clock |-> SN76489ClockAfter(capped, target),
                   index |-> capped]
             ELSE [clock |-> clock, index |-> index]


\* x & AUDIO_CMD_QUEUE_MASK for the unsigned 32-bit index arithmetic: the
\* size is a power of two that divides 2^32, so wrapping to 32 bits and
\* masking is the remainder modulo the size (non-negative for negative x).
QueueMask(x) == x % AUDIO_CMD_QUEUE_SIZE

\* cmd_queue_count: (cmd_write_idx - cmd_read_idx) & AUDIO_CMD_QUEUE_MASK
QueueCount(w, r) == QueueMask(w - r)

\* The queue is full only when every slot is taken.
QueueIsFull_AllSlots(w, r) == FALSE

\* cmd_queue_is_full
QueueIsFull(w, r) == QueueMask(w + 1) = r

\* cmd_queue_is_empty
QueueIsEmpty(w, r) == r = w

\* The content of slot i of cmd_queue.
QueueSlot(q, i) == IF i \in DOMAIN q THEN q[i] ELSE 0


\* audio_rt_dma_irq_handler, one completed channel: a filled buffer moves
\* the read index on and is counted off; without one the underrun is
\* counted and the indices stay.
RingComplete_Advance(r, c, u) ==
    [read |-> (r + 1) % RING_BUFFER_COUNT,
     count |-> IF c > 0 THEN c - 1 ELSE 0,
     underruns |-> IF c > 0 THEN u ELSE u + 1]

\* A filled buffer moves the read index on but is not counted off.
RingComplete_KeepCount(r, c, u) ==
    IF c > 0
    THEN [read |-> (r + 1) % RING_BUFFER_COUNT, count |-> c, underruns |-> u]
    ELSE [read |-> r, count |-> c, underruns |-> u + 1]

RingComplete(r, c, u) ==
    IF c > 0
    THEN [read |-> (r + 1) % RING_BUFFER_COUNT, count |-> c - 1,
          underruns |-> u]
    ELSE [read |-> r, count |-> c, underruns |-> u + 1]

\* What audio_dma_irq_handler (audio.c 450-455) does for one pending
\* channel, in the order of its statements.
AudioDmaChannelOps_ArmFirst(ch) ==
    <<<<"arm", ch>>, <<"ack", ch>>, <<"free", ch>>>>

AudioDmaChannelOps(ch) ==
    <<<<"ack", ch>>, <<"arm", ch>>, <<"free", ch>>>>

\* audio_dma_irq_handler (audio.c 439-460): channel A (buffer 0) is served
\* first, then channel B (buffer 1).
AudioDmaIrqOps(ints) ==
    (IF 0 \in ints THEN AudioDmaChannelOps(0) ELSE <<>>)
        \o (IF 1 \in ints THEN AudioDmaChannelOps(1) ELSE <<>>)

\* What audio_rt_dma_irq_handler (audio_realtime.c 224-245, 248-266) does
\* for one pending channel, in the order of its statements: the bit, the
\* ring indices or the underrun counter, the zero-fill of an empty ring's
\* buffer, the re-arm, the interrupt counter.
AudioRtChannelOps(ch) ==
    <<<<"ack", ch>>, <<"ring", ch>>, <<"zero", ch>>, <<"arm", ch>>,
      <<"count", ch>>>>

\* audio_rt_dma_irq_handler (audio_realtime.c 220-267): channel A first,
\* then channel B.
AudioRtIrqOps(ints) ==
    (IF "A" \in ints THEN AudioRtChannelOps("A") ELSE <<>>)
        \o (IF "B" \in ints THEN AudioRtChannelOps("B") ELSE <<>>)

\* write_to_ring_buffer's copy loop (audio_realtime.c 668-673) stops at the
\* end of the buffer: the samples of a chunk of count that it stores from
\* position idx.
ChunkStored(idx, count) ==
    IF idx + count > RING_BUFFER_SAMPLES THEN RING_BUFFER_SAMPLES - idx
                                         ELSE count

\* The channel a finished channel chains to.
ChainTo(c) == IF c = "A" THEN "B" ELSE "A"


\* screen_height = is_pal ? 240 : 224
ScreenHeight(pal) == IF pal THEN 240 ELSE 224

\* lines_per_frame = is_pal ? LINES_PER_FRAME_PAL : LINES_PER_FRAME_NTSC
LinesPerFrame(pal) == IF pal THEN LINES_PER_FRAME_PAL ELSE LINES_PER_FRAME_NTSC

\* The line counter is reloaded on scanline 0 and below the counted region.
HintReload(line, height) == line = 0 \/ line > height

\* An underflow raises the line interrupt on any scanline.
HintRegion_AnyLine(line, height) == TRUE

\* The scanlines on which an underflow raises the line interrupt.
HintRegion(line, height) == line <= height

\* z80_run is called after the 68000 has run scanline line when the line
\* ends a slice of Z80_SLICE_LINES or is the frame's last (main.c 851).
Z80SliceEnds(line, lines) ==
    (line % Z80_SLICE_LINES) = (Z80_SLICE_LINES - 1) \/ line = lines - 1

\* z80_irq_line always drives the interrupt request.
Z80IrqLine_Always(once, request, value) == value

\* z80_irq_line(value): ignored until the Z80 has been taken out of reset
\* once, then the interrupt request follows value.
Z80IrqLine(once, request, value) == IF ~once THEN request ELSE value


\* m68k_run(target): the cycle counter and the instructions executed
\* after the call, every instruction taking cost cycles.  A CPU ahead of
\* the target returns at once; a stopped CPU is moved to the target.
M68kRun(cycles, execs, stopped, target, cost) ==
    IF cycles >= target THEN [cycles |-> cycles, execs |-> execs]
    ELSE IF stopped THEN [cycles |-> target, execs |-> execs]
    ELSE LET n == (target - cycles + cost - 1) \div cost
         IN  [cycles |-> cycles + n * cost, execs |-> execs + n]

\* z80_run(target) of z80inst.c: a disabled Z80 has its clock set to the
\* target; a clock at or past the target, or less than one Z80 cycle short
\* of it, is left alone; a Z80 that runs (reset released once, bus not
\* requested, not in reset) and is not halted without interrupt executes
\* the slice; the clock ends at the target less what the core left over.
Z80Run(enabled, clk, execs, target, runs, idle, rem) ==
    IF ~enabled THEN [zclk |-> target, execs |-> execs]
    ELSE IF clk >= target THEN [zclk |-> clk, execs |-> execs]
    ELSE IF target - clk < Z80_FREQ_DIVISOR THEN [zclk |-> clk, execs |-> execs]
    ELSE IF runs /\ idle THEN [zclk |-> target, execs |-> execs]
    ELSE IF runs
         THEN [zclk |-> target - rem * Z80_FREQ_DIVISOR,
               execs |-> execs + ((target - clk) \div Z80_FREQ_DIVISOR) - rem]
    ELSE [zclk |-> target, execs |-> execs]

\* z80_run(target) of z80inst_gpx.c: no enable test; the left-over is in
\* master cycles and never negative.
Z80RunGpx(clk, execs, target, runs, idle, rem) ==
    IF clk >= target THEN [zclk |-> clk, execs |-> execs]
    ELSE IF target - clk < Z80_FREQ_DIVISOR THEN [zclk |-> clk, execs |-> execs]
    ELSE IF runs /\ idle THEN [zclk |-> target, execs |-> execs]
    ELSE IF runs
         THEN LET left == IF rem < 0 THEN 0 ELSE rem * Z80_FREQ_DIVISOR
              IN  [zclk |-> target - left,
                   execs |-> execs + ((target - clk - left) \div Z80_FREQ_DIVISOR)]
    ELSE [zclk |-> target, execs |-> execs]

\* The Z80 executes: (reset_once == 1) && (bus_ack == 0) && (reset == 0)
Z80Runs(once, ack, rst) == once /\ ~ack /\ ~rst


\* What one frame of emulation_loop calls and publishes (main.c 840-1033):
\* m68k_run once per scanline, z80_run on the last scanline of each slice
\* of 16 and on the frame's last, both chips flushed to AUDIO_TARGET_CLOCK,
\* the renderer once per visible line of a rendered frame, the hand-off of
\* the write slot with the two sample counts, and (sound_core, audio.c
\* audio_submit) one commit.
FrameCalls_SkipFlush(render, lines, height, slot, ym, sn) ==
    [m68k |-> lines,
     z80 |-> {l \in 0 .. (lines - 1) : l % 16 = 15 \/ l = lines - 1},
     flush |-> IF render THEN AUDIO_TARGET_CLOCK ELSE 0,
     render |-> IF render THEN height ELSE 0,
     handoff |-> [slot |-> slot, ym |-> ym, sn |-> sn],
     commit |-> CommitLength(Available(SaneCount(ym), SaneCount(sn)))]

FrameCalls(render, lines, height, slot, ym, sn) ==
    [m68k |-> lines,
     z80 |-> {l \in 0 .. (lines - 1) : l % 16 = 15 \/ l = lines - 1},
     flush |-> AUDIO_TARGET_CLOCK,
     render |-> IF render THEN height ELSE 0,
     handoff |-> [slot |-> slot, ym |-> ym, sn |-> sn],
     commit |-> CommitLength(Available(SaneCount(ym), SaneCount(sn)))]

\* The state emulation_loop starts from (main.c 115-116, 606-624) under a
\* pattern of the table, with the adaptive controller compiled in or out.
TwinStart(len, mask) ==
    [frameskip_pattern_len |-> len, frameskip_pattern_mask |-> mask,
     enable_constant |-> TRUE, enable_adaptive |-> FALSE,
     frame_num |-> 0, consecutive_skipped_frames |-> 0,
     last_screen_width |-> 0, last_screen_height |-> 0,
     frame_budget_us |-> 16666, backlog_us |-> 0, render_cost_ema_us |-> 0,
     force_render_next |-> 0, frameskip_rng |-> 13,
     audio_write_buffer |-> 0]


\* ------------------------------------------------------------------- state
VARIABLES
    \* build configuration (ENABLE_CONSTANT_FRAMESKIP, ENABLE_ADAPTIVE_FRAMESKIP)
    enable_constant, enable_adaptive,
    \* emulated video-controller registers (REG1_PAL, REG12_MODE_H40)
    reg_pal, reg_h40,
    \* core 0: emulation_loop
    epc, frame_num, consecutive_skipped_frames,
    screen_width, screen_height, last_screen_width, last_screen_height,
    force_render, render_this_frame,
    frameskip_pattern_len, frameskip_pattern_mask,
    frame_budget_us, frame_work_us, backlog_us, render_cost_ema_us,
    force_render_next, frameskip_rng,
    sn76489_index, ym2612_index,
    audio_write_buffer, gwenesis_sn76489_buffer, gwenesis_ym2612_buffer,
    gwenesis_sn76489_buffer_mem, gwenesis_ym2612_buffer_mem,
    \* the hand-off record
    frame_ready, audio_done, saved_ym_samples, saved_sn_samples,
    audio_read_sn76489, audio_read_ym2612,
    \* core 1: sound_core, audio_submit, i2s_dma_write_count
    apc, audio_enabled, startup_frame_counter,
    ym_buffer, sn_buffer, ym_samples, sn_samples,
    mixed_buffer, sample_count, buf_index,
    master_volume, lpf_state,
    \* chained double-buffer DMA
    dma_buffers, dma_buffers_free_mask, preroll_count, audio_running,
    dma_busy, dma_ints,
    \* environment: the DMA hardware has stopped completing transfers
    dma_wedged,
    \* observers (not program state)
    frameskip_level,
    published, acked, commit_calls, rendered_frames, last_render, dim_changed,
    played, played_stale, dma_fresh, drain_stale, late,
    prev_tail, ym_read_end, sn_read_end,
    frame_ready_writes, audio_done_writes,
    \* the PSG producer's clock, and the largest target of the frame (observer)
    sn76489_clock, psg_max_target,
    \* real-time driver: the command queue between the cores
    cmd_queue, cmd_write_idx, cmd_read_idx, queue_overflows,
    commands_processed, push_pc, pop_pc, pop_cmd,
    \* observers: pushes tried and accepted, pops seen in push order
    push_calls, accepted, pop_order_ok,
    \* real-time driver: the ring of DMA buffers
    ring_buffers, ring_write_idx, ring_read_idx, ring_count,
    buffer_sample_idx, buffer_underruns, ring_read_addr, ring_busy,
    ring_ints, irq_pc, irq_ints, ring_plays,
    \* the scanline loop: counters, the video registers it reads, the Z80
    \* wrapper's state, and what the last scanline raised
    scan_line, lines_per_frame, hint_counter, gwenesis_vdp_regs10,
    reg_line_interrupt, reg_vblank_interrupt, hint_pending, reset_once,
    z80_irequest, hint_raised, vint_raised,
    \* the CPU adapters: each CPU's cycle counter, what gates its
    \* execution, the instructions it has executed, and the last run call
    cpu_pc, m68k_cycles, cpu_stopped, m68k_execs, zclk, z80_enabled, use_z80_gpx, bus_ack, z80_reset, z80_halt, z80_execs, cpu_call, cpu_calls,
    \* the time core 0 spent in its last audio wait, microseconds
    audio_wait_us_local,
    \* two runs of emulation_loop side by side, frame by frame: where the
    \* pair stands, the frames run, each run's controller and slot state,
    \* and what each run called in its last frame
    twin_pc, twin_frame, twin, twin_calls,
    \* observer: what became of the Z80 interrupt line in this frame: "none"
    \* (not asserted), "asserted", "ran" (z80_run was called while it was
    \* asserted), "missed" (cleared with no z80_run in between)
    z80_irq_served,
    \* observer: samples of the last chunk write_to_ring_buffer was handed
    \* that it did not store
    chunk_dropped

cfgVars == <<enable_constant, enable_adaptive>>
\* audio_submit's volume and fade state, and the observers of what it read
\* and of the last sample it committed before the current buffer.
mixVars == <<master_volume, lpf_state, prev_tail, ym_read_end, sn_read_end>>
\* The writes the two loops have made to each hand-off flag, as pairs of
\* the writing core and the value written.
logVars == <<frame_ready_writes, audio_done_writes>>
\* The PSG producer's clock, followed where gwenesis_SN76489_run is (in the
\* other specifications the chip counts are drawn from ChipCounts).
psgVars == <<sn76489_clock, psg_max_target>>
\* What the hand-off between the cores leaves alone.
\* The real-time driver's command queue (audio_realtime.c 105-111): the
\* slots written so far (the others hold their initial zero), the two
\* indices, the statistics, and where each core stands in push and pop.
queueVars == <<cmd_queue, cmd_write_idx, cmd_read_idx, queue_overflows,
               commands_processed, push_pc, pop_pc, pop_cmd, push_calls,
               accepted, pop_order_ok>>
\* The real-time driver's ring (audio_realtime.c 93-101), the two chained
\* DMA channels reading from it, and the interrupt handler's position.
ringVars == <<ring_buffers, ring_write_idx, ring_read_idx, ring_count,
              buffer_sample_idx, buffer_underruns, ring_read_addr, ring_busy,
              ring_ints, irq_pc, irq_ints, ring_plays>>
\* The scanline loop of emulation_loop (main.c 840-890) with the video
\* registers and the Z80 wrapper state (z80inst.c 43, 233-244) it works on.
lineVars == <<scan_line, lines_per_frame, hint_counter, gwenesis_vdp_regs10,
              reg_line_interrupt, reg_vblank_interrupt, hint_pending,
              reset_once, z80_irequest, hint_raised, vint_raised>>
\* The state m68k_run (m68kcpu.c 509-565) and z80_run (z80inst.c 114-166,
\* z80inst_gpx.c 120-171) work on, and a record of the last call.
cpuVars == <<cpu_pc, m68k_cycles, cpu_stopped, m68k_execs, zclk, z80_enabled, use_z80_gpx, bus_ack, z80_reset, z80_halt, z80_execs, cpu_call, cpu_calls>>
\* audio_wait_us_local of emulation_loop (main.c 987-989).
waitVars == <<audio_wait_us_local>>
\* Two runs of emulation_loop fed the same emulated inputs (main.c 729-1033,
\* one frame per step).
twinVars == <<twin_pc, twin_frame, twin, twin_calls>>
\* The observer of the Z80 time slices against the interrupt line.
sliceVars == <<z80_irq_served>>
\* The observer of write_to_ring_buffer's copy loop.
chunkVars == <<chunk_dropped>>
sideVars == <<psgVars, queueVars, ringVars, lineVars, cpuVars, waitVars, twinVars, sliceVars, chunkVars>>
regVars == <<reg_pal, reg_h40>>
skipVars == <<consecutive_skipped_frames, screen_width, screen_height,
              last_screen_width, last_screen_height, force_render,
              render_this_frame, frame_budget_us, frame_work_us, backlog_us,
              render_cost_ema_us, force_render_next, frameskip_rng,
              rendered_frames, last_render, dim_changed>>
levelVars == <<frameskip_level, frameskip_pattern_len, frameskip_pattern_mask>>
chipVars == <<sn76489_index, ym2612_index, gwenesis_sn76489_buffer_mem,
              gwenesis_ym2612_buffer_mem>>
writeVars == <<audio_write_buffer, gwenesis_sn76489_buffer,
               gwenesis_ym2612_buffer>>
recordVars == <<saved_ym_samples, saved_sn_samples, audio_read_sn76489,
                audio_read_ym2612>>
submitVars == <<audio_enabled, startup_frame_counter, ym_buffer, sn_buffer,
                ym_samples, sn_samples, mixed_buffer, sample_count, buf_index,
                commit_calls>>
dmaVars == <<dma_buffers, dma_buffers_free_mask, preroll_count, audio_running,
             dma_busy, dma_ints, dma_wedged, played, played_stale, dma_fresh,
             drain_stale, late>>

vars == <<cfgVars, sideVars, logVars, mixVars, regVars, epc, frame_num, skipVars, levelVars, chipVars,
          writeVars, frame_ready, audio_done, recordVars, apc, submitVars,
          dmaVars, published, acked>>

\* A chip buffer slot: the frame that wrote it, and whether that frame's
\* samples are all in (full) or still being produced.
Zeroed == [frame |-> SILENCE, full |-> TRUE]

\* ----------------------------------------------------------- initial state
\* What does not depend on main()'s reset of the hand-off record: the
\* statics of emulation_loop and of the audio driver, and the observers.
InitRest ==
    /\ frame_num = 0 /\ consecutive_skipped_frames = 0
    /\ screen_width = 320 /\ screen_height = 224
    /\ last_screen_width = 0 /\ last_screen_height = 0
    /\ force_render = FALSE /\ render_this_frame = TRUE
    /\ frame_budget_us = 16666 /\ frame_work_us = 0 /\ backlog_us = 0
    /\ render_cost_ema_us = 0 /\ force_render_next = 0
    /\ frameskip_rng = 13
    /\ gwenesis_sn76489_buffer = 0 /\ gwenesis_ym2612_buffer = 0
    /\ gwenesis_sn76489_buffer_mem = [s \in 0 .. 1 |-> Zeroed]
    /\ gwenesis_ym2612_buffer_mem = [s \in 0 .. 1 |-> Zeroed]
    /\ master_volume = 100
    /\ prev_tail = 0 /\ ym_read_end = 0 /\ sn_read_end = 0
    /\ ym_buffer = NULL /\ sn_buffer = NULL /\ ym_samples = 0 /\ sn_samples = 0
    /\ sample_count = 0 /\ buf_index = 0
    /\ dma_buffers = [b \in 0 .. (DMA_BUFFER_COUNT - 1) |-> SILENCE]
    /\ dma_buffers_free_mask = 0 .. (DMA_BUFFER_COUNT - 1)
    /\ preroll_count = 0 /\ audio_running = FALSE
    /\ dma_busy = NULL /\ dma_ints = {} /\ dma_wedged = FALSE
    /\ published = 0 /\ acked = 0 /\ commit_calls = 0
    /\ rendered_frames = 0 /\ last_render = -1 /\ dim_changed = FALSE
    /\ played = <<>> /\ played_stale = <<>>
    /\ dma_fresh = [b \in 0 .. (DMA_BUFFER_COUNT - 1) |-> FALSE]
    /\ drain_stale = FALSE /\ late = FALSE
    /\ frame_ready_writes = {} /\ audio_done_writes = {}
    /\ sn76489_clock = 0 /\ psg_max_target = 0
    /\ cmd_queue = <<>> /\ cmd_write_idx = 0 /\ cmd_read_idx = 0
    /\ queue_overflows = 0 /\ commands_processed = 0
    /\ push_pc = "idle" /\ pop_pc = "idle" /\ pop_cmd = 0
    /\ push_calls = 0 /\ accepted = 0 /\ pop_order_ok = TRUE
    \* the ring as audio_rt_core1_main starts it (audio_realtime.c 702-721)
    /\ ring_buffers = [i \in 0 .. RING_BUFFER_COUNT - 1 |-> "zero"]
    /\ ring_write_idx = 2 /\ ring_read_idx = 0 /\ ring_count = 2
    /\ buffer_sample_idx = 0 /\ buffer_underruns = 0
    /\ ring_read_addr = [c \in Channels |-> IF c = "A" THEN 0 ELSE 1]
    /\ ring_busy = "A" /\ ring_ints = {}
    /\ irq_pc = "idle" /\ irq_ints = {} /\ ring_plays = 0
    \* the video registers after reset, the Z80 after z80_start
    /\ scan_line = 0 /\ lines_per_frame = LINES_PER_FRAME_NTSC
    /\ hint_counter = 0 /\ gwenesis_vdp_regs10 = 0
    /\ reg_line_interrupt = FALSE /\ reg_vblank_interrupt = FALSE
    /\ hint_pending = FALSE /\ reset_once = FALSE /\ z80_irequest = FALSE
    /\ hint_raised = FALSE /\ vint_raised = FALSE
    \* the CPU adapters after m68k_init and z80_start
    /\ cpu_pc = "boot" /\ m68k_cycles = 0 /\ cpu_stopped = FALSE
    /\ m68k_execs = 0 /\ zclk = 0 /\ z80_enabled = TRUE
    /\ use_z80_gpx = FALSE /\ bus_ack = FALSE /\ z80_reset = TRUE
    /\ z80_halt = FALSE /\ z80_execs = 0 /\ cpu_calls = 0
    /\ cpu_call = [cpu |-> "none", target |-> 0, before |-> 0, execs |-> 0]
    /\ audio_wait_us_local = 0
    /\ twin_pc = "boot" /\ twin_frame = 0
    /\ twin = [r \in 1 .. 2 |-> TwinStart(1, 1)]
    /\ twin_calls = [r \in 1 .. 2 |-> FrameCalls(TRUE, 0, 0, 0, 0, 0)]
    /\ z80_irq_served = "none"
    /\ chunk_dropped = 0

\* The state when emulation_loop is entered: main() has reset the hand-off
\* record and zeroed the chip buffers, sound_core has run audio_init and
\* spins at its frame_ready wait.
InitState ==
    /\ InitRest
    /\ epc = "top" /\ apc = "wait"
    /\ sn76489_index = 0 /\ ym2612_index = 0
    /\ audio_write_buffer = 0
    /\ frame_ready = FALSE /\ audio_done = TRUE
    /\ saved_ym_samples = 0 /\ saved_sn_samples = 0
    /\ audio_read_sn76489 = 0 /\ audio_read_ym2612 = 0

\* audio_init (audio.c 318-337): the start-up mute counter and the fade
\* state start at 0.
InitCommon ==
    /\ InitState
    /\ audio_enabled = TRUE
    /\ startup_frame_counter = 0
    /\ lpf_state = 0
    /\ mixed_buffer = [path |-> "none", ym |-> Zeroed, sn |-> Zeroed]

\* The build as shipped: constant frameskip on, adaptive off, level 3.
Init ==
    /\ InitCommon
    /\ enable_constant = TRUE /\ enable_adaptive = FALSE
    /\ reg_pal = FALSE /\ reg_h40 = TRUE
    /\ frameskip_level = 3
    /\ frameskip_pattern_len = 6 /\ frameskip_pattern_mask = 9


\* ------------------------------------------------- core 0: emulation_loop
\* The render decision of one frame: constant pattern, adaptive backlog with
\* burst and dither, the consecutive-skip safety, the dimension-change force.
SkipDecision(force) ==
    LET r1 == IF enable_constant
              THEN PatternRender(frameskip_pattern_len, frameskip_pattern_mask,
                                 frame_num)
              ELSE TRUE
        skip_mode == InSkipMode(backlog_us, render_cost_ema_us)
        r2 == IF ~enable_adaptive THEN r1
              ELSE IF force_render_next # 0 THEN TRUE
              ELSE IF skip_mode /\ EstimatedRenderCost(render_cost_ema_us) # 0
                   THEN FALSE
              ELSE r1
        fnext == IF enable_adaptive /\ force_render_next # 0
                 THEN force_render_next - 1 ELSE force_render_next
        roll == enable_adaptive /\ ~r2 /\ skip_mode
        rng == IF roll THEN RngStep(frameskip_rng) ELSE frameskip_rng
        r3 == IF roll /\ (rng % (FRAMESKIP_DITHER_MASK + 1)) = 0 THEN TRUE ELSE r2
        r4 == SafetyRender(r3, consecutive_skipped_frames)
        r5 == ForceRender(r4, force)
    IN  [render |-> r5, fnext |-> fnext, rng |-> rng]

\* Top of a frame (main.c 729-828): sample the video registers, decide
\* whether to render, pay down backlog on a skip, reset the chip indices.
\* From here on the chips write the frame's samples into the write slot.
E_Top(cap) ==
    /\ epc = "top"
    /\ frame_num < cap
    /\ LET w == IF reg_h40 THEN 320 ELSE 256
           h == IF reg_pal THEN 240 ELSE 224
           force == (w # last_screen_width) \/ (h # last_screen_height)
           d == SkipDecision(force)
       IN  /\ frame_budget_us' = IF enable_adaptive THEN FrameBudget(reg_pal)
                                                    ELSE frame_budget_us
           /\ dim_changed' = ((w # screen_width) \/ (h # screen_height))
           /\ screen_width' = w
           /\ screen_height' = h
           /\ last_screen_width' = w
           /\ last_screen_height' = h
           /\ force_render' = force
           /\ render_this_frame' = d.render
           /\ force_render_next' = d.fnext
           /\ frameskip_rng' = d.rng
           /\ backlog_us' = IF enable_adaptive /\ ~d.render /\ backlog_us # 0
                            THEN Paydown(backlog_us, render_cost_ema_us)
                            ELSE backlog_us
    /\ sn76489_index' = 0
    /\ ym2612_index' = 0
    /\ gwenesis_sn76489_buffer_mem' =
           [gwenesis_sn76489_buffer_mem EXCEPT ![gwenesis_sn76489_buffer] =
               [frame |-> frame_num, full |-> FALSE]]
    /\ gwenesis_ym2612_buffer_mem' =
           [gwenesis_ym2612_buffer_mem EXCEPT ![gwenesis_ym2612_buffer] =
               [frame |-> frame_num, full |-> FALSE]]
    /\ epc' = "emulate"
    /\ UNCHANGED <<cfgVars, sideVars, logVars, mixVars, regVars, frame_num, consecutive_skipped_frames,
                   frame_work_us, render_cost_ema_us, rendered_frames,
                   last_render, levelVars, writeVars, frame_ready, audio_done,
                   recordVars, apc, submitVars, dmaVars, published, acked>>

\* Scanline loop, sound flush, render phase and skip bookkeeping
\* (main.c 840-977).  The chips leave their sample counts in the indices and
\* the frame's samples complete in the write slot.
E_RunFrame(counts, works, renders) ==
    /\ epc = "emulate"
    /\ \E ym \in counts, sn \in counts :
          /\ ym2612_index' = ym
          /\ sn76489_index' = sn
    /\ gwenesis_sn76489_buffer_mem' =
           [gwenesis_sn76489_buffer_mem EXCEPT ![gwenesis_sn76489_buffer] =
               [frame |-> frame_num, full |-> TRUE]]
    /\ gwenesis_ym2612_buffer_mem' =
           [gwenesis_ym2612_buffer_mem EXCEPT ![gwenesis_ym2612_buffer] =
               [frame |-> frame_num, full |-> TRUE]]
    /\ \E render_us \in (IF enable_adaptive /\ render_this_frame
                         THEN renders ELSE {0}) :
          render_cost_ema_us' =
              IF enable_adaptive /\ render_this_frame
              THEN EmaUpdate(render_cost_ema_us, render_us)
              ELSE render_cost_ema_us
    /\ rendered_frames' = IF render_this_frame THEN rendered_frames + 1
                                               ELSE rendered_frames
    /\ last_render' = IF render_this_frame THEN frame_num ELSE last_render
    /\ consecutive_skipped_frames' =
           IF render_this_frame THEN 0 ELSE consecutive_skipped_frames + 1
    /\ force_render_next' =
           IF /\ enable_adaptive
              /\ render_this_frame /\ ~force_render /\ force_render_next = 0
              /\ (\/ InSkipMode(backlog_us, render_cost_ema_us')
                  \/ consecutive_skipped_frames' > 0)
              /\ FRAMESKIP_RENDER_BURST_LEN > 1
           THEN FRAMESKIP_RENDER_BURST_LEN - 1
           ELSE force_render_next
    /\ \E work \in (IF enable_adaptive THEN works ELSE {0}) :
          frame_work_us' = work
    /\ epc' = "wait"
    /\ UNCHANGED <<cfgVars, sideVars, logVars, mixVars, regVars, frame_num, screen_width, screen_height,
                   last_screen_width, last_screen_height, force_render,
                   render_this_frame, frame_budget_us, backlog_us,
                   frameskip_rng, dim_changed, levelVars, writeVars,
                   frame_ready, audio_done, recordVars, apc, submitVars,
                   dmaVars, published, acked>>

\* The Start+Select hot key at the top of the loop (main.c 627-677,
\* settings.c 948-965): the settings menu opens and mutes audio output.
E_SettingsOpen ==
    /\ epc = "top"
    /\ audio_enabled
    /\ audio_enabled' = FALSE
    /\ epc' = "menu"
    /\ UNCHANGED <<cfgVars, sideVars, logVars, mixVars, regVars, frame_num, skipVars, levelVars, chipVars,
                   writeVars, frame_ready, audio_done, recordVars, apc,
                   startup_frame_counter, ym_buffer, sn_buffer, ym_samples,
                   sn_samples, mixed_buffer, sample_count, buf_index,
                   commit_calls, dmaVars, published, acked>>

\* The menu is cancelled (settings.c 1109-1115, main.c 692-725): audio
\* output is enabled again, the saved resolution is restored and the loop
\* continues with the next iteration.
E_SettingsCancel ==
    /\ epc = "menu"
    /\ audio_enabled' = TRUE
    /\ last_screen_width' = screen_width
    /\ last_screen_height' = screen_height
    /\ epc' = "top"
    /\ UNCHANGED <<cfgVars, sideVars, logVars, mixVars, regVars, frame_num, consecutive_skipped_frames,
                   screen_width, screen_height, force_render,
                   render_this_frame, frame_budget_us, frame_work_us,
                   backlog_us, render_cost_ema_us, force_render_next,
                   frameskip_rng, rendered_frames, last_render, dim_changed,
                   levelVars, chipVars, writeVars, frame_ready, audio_done,
                   recordVars, apc, startup_frame_counter, ym_buffer,
                   sn_buffer, ym_samples, sn_samples, mixed_buffer,
                   sample_count, buf_index, commit_calls, dmaVars, published,
                   acked>>

\* set_frameskip_level (main.c 119-123), called with the configured level.
SetFrameskipLevel(level) ==
    /\ epc = "top"
    /\ frameskip_level' = LevelClamp(level)
    /\ frameskip_pattern_len' = frameskip_patterns[LevelClamp(level) + 1][1]
    /\ frameskip_pattern_mask' = frameskip_patterns[LevelClamp(level) + 1][2]
    /\ UNCHANGED <<cfgVars, sideVars, logVars, mixVars, regVars, epc, frame_num, skipVars, chipVars,
                   writeVars, frame_ready, audio_done, recordVars, apc,
                   submitVars, dmaVars, published, acked>>

\* The emulated program writes the video-mode registers while the frame is
\* emulated; emulation_loop samples them at the top of the next frame.
VdpRegWrite(pal, h40) ==
    /\ epc = "emulate"
    /\ reg_pal' = pal
    /\ reg_h40' = h40
    /\ UNCHANGED <<cfgVars, sideVars, logVars, mixVars, epc, frame_num, skipVars, levelVars, chipVars,
                   writeVars, frame_ready, audio_done, recordVars, apc,
                   submitVars, dmaVars, published, acked>>

\* The audio wait (main.c 979-1011): spin until audio_done unless this is
\* the first frame, clear audio_done, update the backlog.
E_AudioWait(waits) ==
    /\ epc = "wait"
    /\ AudioWaitOver(audio_done, frame_num)
    /\ audio_done' = FALSE
    /\ \E wait \in (IF enable_adaptive THEN waits ELSE {0}) :
          /\ audio_wait_us_local' = wait
          /\ backlog_us' = IF enable_adaptive
                           THEN BacklogUpdate(backlog_us, frame_work_us,
                                              frame_budget_us, wait)
                           ELSE backlog_us
    /\ epc' = "publish"
    /\ frame_ready_writes' = frame_ready_writes
    /\ audio_done_writes' = audio_done_writes \cup {<<0, FALSE>>}
    /\ UNCHANGED <<cfgVars, chunkVars, sliceVars, twinVars, psgVars, queueVars, ringVars, lineVars, cpuVars,
                   mixVars, regVars, frame_num, consecutive_skipped_frames,
                   screen_width, screen_height, last_screen_width,
                   last_screen_height, force_render, render_this_frame,
                   frame_budget_us, frame_work_us, render_cost_ema_us,
                   force_render_next, frameskip_rng, rendered_frames,
                   last_render, dim_changed, levelVars, chipVars, writeVars,
                   frame_ready, recordVars, apc, submitVars, dmaVars,
                   published, acked>>

\* Save the sample counts and the read pointers (main.c 1013-1022).
E_SaveCounts ==
    /\ epc = "publish"
    /\ saved_ym_samples' = ym2612_index
    /\ saved_sn_samples' = sn76489_index
    /\ audio_read_sn76489' = gwenesis_sn76489_buffer
    /\ audio_read_ym2612' = gwenesis_ym2612_buffer
    /\ epc' = "swap"
    /\ UNCHANGED <<cfgVars, sideVars, logVars, mixVars, regVars, frame_num, skipVars, levelVars, chipVars,
                   writeVars, frame_ready, audio_done, apc, submitVars,
                   dmaVars, published, acked>>

SwapSlot_Same(slot) == slot

\* audio_write_buffer = 1 - audio_write_buffer
SwapSlot(slot) == 1 - slot

\* Swap the write buffers to the other slot (main.c 1024-1027).
E_Swap ==
    /\ epc = "swap"
    /\ audio_write_buffer' = SwapSlot(audio_write_buffer)
    /\ gwenesis_sn76489_buffer' = audio_write_buffer'
    /\ gwenesis_ym2612_buffer' = audio_write_buffer'
    /\ epc' = "ready"
    /\ UNCHANGED <<cfgVars, sideVars, logVars, mixVars, regVars, frame_num, skipVars, levelVars, chipVars,
                   frame_ready, audio_done, recordVars, apc, submitVars,
                   dmaVars, published, acked>>

\* Signal core 1 and count the frame (main.c 1029-1033).
E_FrameReady ==
    /\ epc = "ready"
    /\ frame_ready' = TRUE
    /\ frame_num' = frame_num + 1
    /\ published' = published + 1
    /\ epc' = "top"
    /\ frame_ready_writes' = frame_ready_writes \cup {<<0, TRUE>>}
    /\ audio_done_writes' = audio_done_writes
    /\ UNCHANGED <<cfgVars, sideVars, mixVars, regVars, skipVars, levelVars, chipVars, writeVars,
                   audio_done, recordVars, apc, submitVars, dmaVars, acked>>


\* --------------------------------------------- core 1: sound_core and below
dma_transfer_count == 888

\* sound_core (main.c 573-579): leave the frame_ready spin, clear the flag.
S_WaitFrame ==
    /\ apc = "wait"
    /\ frame_ready
    /\ frame_ready' = FALSE
    /\ apc' = "submit"
    /\ frame_ready_writes' = frame_ready_writes \cup {<<1, FALSE>>}
    /\ audio_done_writes' = audio_done_writes
    /\ UNCHANGED <<cfgVars, sideVars, mixVars, regVars, epc, frame_num, skipVars, levelVars,
                   chipVars, writeVars, audio_done, recordVars, submitVars,
                   dmaVars, published, acked>>

\* audio_submit (audio.c 463-482): local copies of the published pointers
\* and counts, with the sanity check on the counts.
S_ReadShared ==
    /\ apc = "submit"
    /\ ym_buffer' = audio_read_ym2612
    /\ sn_buffer' = audio_read_sn76489
    /\ ym_samples' = SaneCount(saved_ym_samples)
    /\ sn_samples' = SaneCount(saved_sn_samples)
    /\ apc' = "mix"
    /\ UNCHANGED <<cfgVars, sideVars, logVars, mixVars, regVars, epc, frame_num, skipVars, levelVars,
                   chipVars, writeVars, frame_ready, audio_done, recordVars,
                   audio_enabled, startup_frame_counter, mixed_buffer,
                   sample_count, buf_index, commit_calls, dmaVars, published,
                   acked>>

\* Whether audio_submit takes the silence path.
SilencePath(enabled, available, ymb, snb) ==
    ~enabled \/ available = 0 \/ ymb = NULL \/ snb = NULL

\* audio_submit (audio.c 484-546): the silence fade, or the mix of the two
\* chip buffers read through the local pointers (zeroed during the start-up
\* mute); either way one call of i2s_dma_write_count.
S_Mix ==
    /\ apc = "mix"
    /\ LET available == Available(ym_samples, sn_samples)
       IN  /\ IF SilencePath(audio_enabled, available, ym_buffer, sn_buffer)
              THEN /\ mixed_buffer' = [path |-> "fade", ym |-> Zeroed,
                                       sn |-> Zeroed]
                   /\ lpf_state' = FadeLast(lpf_state)
                   /\ ym_read_end' = 0
                   /\ sn_read_end' = 0
                   /\ UNCHANGED startup_frame_counter
              ELSE /\ mixed_buffer' =
                         [path |-> IF startup_frame_counter < STARTUP_FADE_FRAMES
                                   THEN "mute" ELSE "mix",
                          ym |-> gwenesis_ym2612_buffer_mem[ym_buffer],
                          sn |-> gwenesis_sn76489_buffer_mem[sn_buffer]]
                   /\ startup_frame_counter' =
                         IF startup_frame_counter < STARTUP_FADE_FRAMES
                         THEN startup_frame_counter + 1
                         ELSE startup_frame_counter
                   /\ ym_read_end' = ReadEnd(available, ym_samples)
                   /\ sn_read_end' = ReadEnd(available, sn_samples)
                   /\ UNCHANGED lpf_state
           /\ sample_count' = ClampCount(CommitLength(available),
                                         dma_transfer_count)
    /\ commit_calls' = commit_calls + 1
    /\ apc' = "claim"
    /\ UNCHANGED <<cfgVars, sideVars, logVars, master_volume, prev_tail, regVars, epc, frame_num, skipVars, levelVars,
                   chipVars, writeVars, frame_ready, audio_done, recordVars,
                   audio_enabled, ym_buffer, sn_buffer, ym_samples, sn_samples,
                   buf_index, dmaVars, published, acked>>

\* i2s_dma_write_count (audio.c 219-244): wait for a free buffer and claim
\* it, with interrupts disabled.
W_Claim ==
    /\ apc = "claim"
    /\ LET idx == ClaimIndex(audio_running, preroll_count,
                             dma_buffers_free_mask)
       IN  /\ idx # NULL
           /\ buf_index' = idx
           /\ dma_buffers_free_mask' = dma_buffers_free_mask \ {idx}
    /\ apc' = "fill"
    /\ UNCHANGED <<cfgVars, sideVars, logVars, mixVars, regVars, epc, frame_num, skipVars, levelVars,
                   chipVars, writeVars, frame_ready, audio_done, recordVars,
                   audio_enabled, startup_frame_counter, ym_buffer, sn_buffer,
                   ym_samples, sn_samples, mixed_buffer, sample_count,
                   commit_calls, dma_buffers, preroll_count, audio_running,
                   dma_busy, dma_ints, dma_wedged, played, played_stale,
                   dma_fresh, drain_stale, late, published, acked>>

\* dma_channel_start(dma_channel_a): channel A drains buffer 0.
StartChannel == 0

\* i2s_dma_write_count (audio.c 246-273): copy the samples into the claimed
\* buffer; during pre-roll count the buffer and start channel A once both
\* are filled.
W_Fill ==
    /\ apc = "fill"
    /\ dma_buffers' = [dma_buffers EXCEPT ![buf_index] = commit_calls - 1]
    /\ IF ~audio_running
       THEN /\ preroll_count' = preroll_count + 1
            /\ IF preroll_count' >= PREROLL_BUFFERS
               THEN /\ audio_running' = TRUE
                    /\ dma_busy' = StartChannel
                    /\ drain_stale' =
                          ~[dma_fresh EXCEPT ![buf_index] = TRUE][StartChannel]
                    /\ dma_fresh' = [[dma_fresh EXCEPT ![buf_index] = TRUE]
                                        EXCEPT ![StartChannel] = FALSE]
               ELSE /\ dma_fresh' = [dma_fresh EXCEPT ![buf_index] = TRUE]
                    /\ UNCHANGED <<audio_running, dma_busy, drain_stale>>
       ELSE /\ dma_fresh' = [dma_fresh EXCEPT ![buf_index] = TRUE]
            /\ UNCHANGED <<preroll_count, audio_running, dma_busy,
                           drain_stale>>
    /\ apc' = "done"
    /\ UNCHANGED <<cfgVars, sideVars, logVars, mixVars, regVars, epc, frame_num, skipVars, levelVars,
                   chipVars, writeVars, frame_ready, audio_done, recordVars,
                   submitVars, dma_buffers_free_mask, dma_ints, dma_wedged,
                   played, played_stale, late, published, acked>>

\* sound_core (main.c 585-586): audio_done = true.
S_AudioDone ==
    /\ apc = "done"
    /\ audio_done' = AudioDoneSignal
    /\ acked' = acked + 1
    /\ apc' = "wait"
    /\ frame_ready_writes' = frame_ready_writes
    /\ audio_done_writes' = audio_done_writes \cup {<<1, AudioDoneSignal>>}
    /\ UNCHANGED <<cfgVars, sideVars, mixVars, regVars, epc, frame_num, skipVars, levelVars,
                   chipVars, writeVars, frame_ready, recordVars, submitVars,
                   dmaVars, published>>

\* ------------------------------------------------------------ DMA hardware
\* Channel ch finishes draining buffer ch: its interrupt bit is set and the
\* chain triggers the other channel, whatever that channel's buffer holds.
\* Interrupt latency is far below one buffer period, so the previous
\* completion has been served.  The observers record the first MaxPlays
\* buffers played.
DmaTransferComplete(ch) ==
    /\ dma_busy = ch
    /\ dma_ints = {}
    /\ ~dma_wedged
    /\ played' = IF Len(played) < MaxPlays
                 THEN Append(played, dma_buffers[ch]) ELSE played
    /\ played_stale' = IF Len(played) < MaxPlays
                       THEN Append(played_stale, drain_stale)
                       ELSE played_stale
    /\ dma_ints' = {ch}
    /\ dma_busy' = 1 - ch
    /\ drain_stale' = ~dma_fresh[1 - ch]
    /\ late' = (late \/ ~dma_fresh[1 - ch])
    /\ dma_fresh' = [dma_fresh EXCEPT ![1 - ch] = FALSE]
    /\ UNCHANGED <<cfgVars, sideVars, logVars, mixVars, regVars, epc, frame_num, skipVars, levelVars,
                   chipVars, writeVars, frame_ready, audio_done, recordVars,
                   apc, submitVars, dma_buffers, dma_buffers_free_mask,
                   preroll_count, audio_running, dma_wedged, published,
                   acked>>

\* The handler leaves the free mask as it found it.
FreedMask_Lost(free, ints) == free

\* dma_buffers_free_mask |= 1u / |= 2u for the channels whose bit is pending.
FreedMask(free, ints) == free \cup ints

\* audio_dma_irq_handler (audio.c 439-460): for each pending channel clear
\* the bit, re-arm the channel on its own buffer, mark the buffer free.
AudioDmaIrqHandler ==
    /\ dma_ints # {}
    /\ dma_ints' = {}
    /\ dma_buffers_free_mask' = FreedMask(dma_buffers_free_mask, dma_ints)
    /\ UNCHANGED <<cfgVars, sideVars, logVars, mixVars, regVars, epc, frame_num, skipVars, levelVars,
                   chipVars, writeVars, frame_ready, audio_done, recordVars,
                   apc, submitVars, dma_buffers, preroll_count, audio_running,
                   dma_busy, dma_wedged, played, played_stale, dma_fresh,
                   drain_stale, late, published, acked>>

\* The DMA hardware wedges: from here on no transfer completes.  Interrupts
\* already raised are still served.
DmaWedge ==
    /\ audio_running
    /\ ~dma_wedged
    /\ dma_wedged' = TRUE
    /\ UNCHANGED <<cfgVars, sideVars, logVars, mixVars, regVars, epc, frame_num, skipVars, levelVars,
                   chipVars, writeVars, frame_ready, audio_done, recordVars,
                   apc, submitVars, dma_buffers, dma_buffers_free_mask,
                   preroll_count, audio_running, dma_busy, dma_ints, played,
                   played_stale, dma_fresh, drain_stale, late, published,
                   acked>>

\* ------------------------------------------------------- specification
Next ==
    \/ E_Top(MaxFrames)
    \/ E_RunFrame(ChipCounts, WorkTimes, RenderTimes)
    \/ E_AudioWait(AudioWaits)
    \/ E_SaveCounts
    \/ E_Swap
    \/ E_FrameReady
    \/ S_WaitFrame
    \/ S_ReadShared
    \/ S_Mix
    \/ W_Claim
    \/ W_Fill
    \/ S_AudioDone
    \/ \E ch \in 0 .. (DMA_BUFFER_COUNT - 1) : DmaTransferComplete(ch)
    \/ AudioDmaIrqHandler
    \/ DmaWedge
    \/ E_SettingsOpen
    \/ E_SettingsCancel

Spec == Init /\ [][Next]_vars


\* ------------------------------------------- the skip controller on its own
\* One whole iteration of sound_core's loop (main.c 571-587) with the
\* sample data and the hardware buffers left out: the frame is taken,
\* committed and acknowledged.
SoundCoreFrame ==
    /\ apc = "wait"
    /\ frame_ready
    /\ frame_ready' = FALSE
    /\ sample_count' = ClampCount(CommitLength(Available(
                           SaneCount(saved_ym_samples),
                           SaneCount(saved_sn_samples))), dma_transfer_count)
    /\ commit_calls' = commit_calls + 1
    /\ audio_done' = AudioDoneSignal
    /\ acked' = acked + 1
    /\ frame_ready_writes' = frame_ready_writes \cup {<<1, FALSE>>}
    /\ audio_done_writes' = audio_done_writes \cup {<<1, AudioDoneSignal>>}
    /\ UNCHANGED <<cfgVars, sideVars, mixVars, regVars, epc, frame_num, skipVars, levelVars,
                   chipVars, writeVars, recordVars, apc, audio_enabled,
                   startup_frame_counter, ym_buffer, sn_buffer, ym_samples,
                   sn_samples, mixed_buffer, buf_index, dmaVars, published>>

\* The deterministic pattern at each level, video mode fixed.
InitPattern ==
    /\ InitCommon
    /\ enable_constant = TRUE /\ enable_adaptive = FALSE
    /\ reg_pal = FALSE /\ reg_h40 = TRUE
    /\ \E level \in 0 .. 4 :
          /\ frameskip_level = level
          /\ frameskip_pattern_len = frameskip_patterns[level + 1][1]
          /\ frameskip_pattern_mask = frameskip_patterns[level + 1][2]

NextPattern ==
    \/ E_Top(PatternFrames)
    \/ E_RunFrame({TARGET_SAMPLES_NTSC}, WorkTimes, RenderTimes)
    \/ E_AudioWait(AudioWaits)
    \/ E_SaveCounts
    \/ E_Swap
    \/ E_FrameReady
    \/ SoundCoreFrame

SpecPattern == InitPattern /\ [][NextPattern]_vars

\* Either skip policy (one controller compiled in, the other out), level
\* changes between frames and video-mode changes during frames.
InitSkip ==
    /\ InitCommon
    /\ enable_constant \in BOOLEAN /\ enable_adaptive = ~enable_constant
    /\ reg_pal = FALSE /\ reg_h40 = TRUE
    /\ frameskip_level = 3
    /\ frameskip_pattern_len = 6 /\ frameskip_pattern_mask = 9

NextSkip ==
    \/ E_Top(SkipFrames)
    \/ E_RunFrame({TARGET_SAMPLES_NTSC}, WorkTimes, {3000})
    \/ E_AudioWait(AudioWaits)
    \/ E_SaveCounts
    \/ E_Swap
    \/ E_FrameReady
    \/ SoundCoreFrame
    \/ \E level \in 0 .. 5 : enable_constant /\ SetFrameskipLevel(level)
    \/ \E pal \in BOOLEAN, h40 \in BOOLEAN : VdpRegWrite(pal, h40)

SpecSkip == InitSkip /\ [][NextSkip]_vars


\* ------------------------------------------ audio_submit sample by sample
\* What one frame can hand to audio_submit: the waveform each chip wrote,
\* the counts published and whether each read pointer is set.
MixInputs ==
    { [ymw |-> "ramp", snw |-> "pos",  ymc |-> 888,  snc |-> 888,
       ymp |-> TRUE,  snp |-> TRUE],
      [ymw |-> "pos",  snw |-> "zero", ymc |-> 888,  snc |-> 0,
       ymp |-> TRUE,  snp |-> TRUE],
      [ymw |-> "big",  snw |-> "big",  ymc |-> 888,  snc |-> 888,
       ymp |-> TRUE,  snp |-> TRUE],
      [ymw |-> "neg",  snw |-> "odd",  ymc |-> 400,  snc |-> 300,
       ymp |-> TRUE,  snp |-> TRUE],
      [ymw |-> "neg",  snw |-> "neg",  ymc |-> 1120, snc |-> 1000,
       ymp |-> TRUE,  snp |-> TRUE],
      [ymw |-> "zero", snw |-> "zero", ymc |-> 0,    snc |-> 0,
       ymp |-> TRUE,  snp |-> TRUE],
      [ymw |-> "ramp", snw |-> "pos",  ymc |-> -1,   snc |-> 1121,
       ymp |-> TRUE,  snp |-> TRUE],
      [ymw |-> "odd",  snw |-> "ramp", ymc |-> 1121, snc |-> 500,
       ymp |-> TRUE,  snp |-> TRUE],
      [ymw |-> "pos",  snw |-> "pos",  ymc |-> 888,  snc |-> 888,
       ymp |-> FALSE, snp |-> TRUE] }

\* The arguments audio_set_volume is called with.
Volumes == {-5, 0, 128, 200}

\* The frames submitted while the fade is followed.
FadeInputs ==
    { [ymw |-> "pos", snw |-> "pos", ymc |-> 888, snc |-> 888,
       ymp |-> TRUE, snp |-> TRUE],
      [ymw |-> "zero", snw |-> "zero", ymc |-> 0, snc |-> 0,
       ymp |-> TRUE, snp |-> TRUE] }

\* The fade states the silence loop is started from.
FadeStates ==
    {-32768, -20000, -5000, -300, -43, -42, -41, -7, -2, -1, 0, 1, 2, 7, 41,
     42, 43, 300, 5000, 20000, 32767}
    \cup { 1000 * k : k \in -32 .. 32 }

\* static int16_t mixed_buffer[]: zero until the first audio_submit.
AllZero == [j \in 0 .. (2 * TARGET_SAMPLES_NTSC - 1) |-> 0]

\* One whole frame of emulation_loop (main.c 979-1033) as audio_submit sees
\* it: the audio_done wait, the chips' samples in the write slot, the saved
\* counts and read pointers, the buffer swap, frame_ready.
EmulateAndPublish(inp, cap) ==
    /\ epc = "top"
    /\ published < cap
    /\ ~frame_ready
    /\ AudioWaitOver(audio_done, frame_num)
    /\ audio_done' = FALSE
    /\ gwenesis_ym2612_buffer_mem' =
          [gwenesis_ym2612_buffer_mem EXCEPT ![gwenesis_ym2612_buffer] =
              [frame |-> frame_num, full |-> TRUE, wave |-> inp.ymw]]
    /\ gwenesis_sn76489_buffer_mem' =
          [gwenesis_sn76489_buffer_mem EXCEPT ![gwenesis_sn76489_buffer] =
              [frame |-> frame_num, full |-> TRUE, wave |-> inp.snw]]
    /\ ym2612_index' = inp.ymc
    /\ sn76489_index' = inp.snc
    /\ saved_ym_samples' = inp.ymc
    /\ saved_sn_samples' = inp.snc
    /\ audio_read_ym2612' = IF inp.ymp THEN gwenesis_ym2612_buffer ELSE NULL
    /\ audio_read_sn76489' = IF inp.snp THEN gwenesis_sn76489_buffer ELSE NULL
    /\ audio_write_buffer' = SwapSlot(audio_write_buffer)
    /\ gwenesis_sn76489_buffer' = audio_write_buffer'
    /\ gwenesis_ym2612_buffer' = audio_write_buffer'
    /\ frame_ready' = TRUE
    /\ frame_num' = frame_num + 1
    /\ published' = published + 1
    /\ frame_ready_writes' = frame_ready_writes \cup {<<0, TRUE>>}
    /\ audio_done_writes' = audio_done_writes \cup {<<0, FALSE>>}
    /\ UNCHANGED <<cfgVars, sideVars, mixVars, regVars, epc, skipVars, levelVars, apc,
                   submitVars, dmaVars, acked>>

\* One whole iteration of sound_core's loop (main.c 571-587) with
\* audio_submit (audio.c 463-547) followed sample by sample and the hardware
\* buffers left out: the frame is taken, mixed into mixed_buffer, committed
\* and acknowledged.
SoundCoreMix ==
    /\ apc = "wait"
    /\ frame_ready
    /\ frame_ready' = FALSE
    /\ ym_buffer' = audio_read_ym2612
    /\ sn_buffer' = audio_read_sn76489
    /\ ym_samples' = SaneCount(saved_ym_samples)
    /\ sn_samples' = SaneCount(saved_sn_samples)
    /\ LET ymc == SaneCount(saved_ym_samples)
           snc == SaneCount(saved_sn_samples)
           available == Available(ymc, snc)
           silent == SilencePath(audio_enabled, available, audio_read_ym2612,
                                 audio_read_sn76489)
           muted == startup_frame_counter < STARTUP_FADE_FRAMES
           fade == FadeSamples(lpf_state)
       IN  /\ mixed_buffer' =
                 IF silent THEN [path |-> "fade", data |-> Stereo(fade)]
                 ELSE IF muted THEN [path |-> "mute", data |-> AllZero]
                 ELSE [path |-> "mix",
                       data |-> Stereo(NormalSamples(
                          gwenesis_ym2612_buffer_mem[audio_read_ym2612].wave,
                          gwenesis_sn76489_buffer_mem[audio_read_sn76489].wave,
                          ymc, snc, master_volume, available))]
           /\ lpf_state' = IF silent THEN fade[TARGET_SAMPLES_NTSC]
                           ELSE lpf_state
           /\ startup_frame_counter' =
                 IF ~silent /\ muted THEN startup_frame_counter + 1
                 ELSE startup_frame_counter
           /\ ym_read_end' = IF silent THEN 0 ELSE ReadEnd(available, ymc)
           /\ sn_read_end' = IF silent THEN 0 ELSE ReadEnd(available, snc)
           /\ sample_count' = ClampCount(CommitLength(available),
                                         dma_transfer_count)
    /\ prev_tail' = mixed_buffer.data[2 * TARGET_SAMPLES_NTSC - 1]
    /\ commit_calls' = commit_calls + 1
    /\ audio_done' = AudioDoneSignal
    /\ acked' = acked + 1
    /\ frame_ready_writes' = frame_ready_writes \cup {<<1, FALSE>>}
    /\ audio_done_writes' = audio_done_writes \cup {<<1, AudioDoneSignal>>}
    /\ UNCHANGED <<cfgVars, sideVars, master_volume, regVars, epc, frame_num, skipVars,
                   levelVars, chipVars, writeVars, recordVars, apc,
                   audio_enabled, buf_index, dmaVars, published>>

\* audio_set_enabled (audio.c 559-561), between two frames.
AudioSetEnabled(enabled) ==
    /\ epc = "top"
    /\ ~frame_ready
    /\ audio_enabled' = enabled
    /\ UNCHANGED <<cfgVars, sideVars, logVars, mixVars, regVars, epc, frame_num, skipVars,
                   levelVars, chipVars, writeVars, frame_ready, audio_done,
                   recordVars, apc, startup_frame_counter, ym_buffer,
                   sn_buffer, ym_samples, sn_samples, mixed_buffer,
                   sample_count, buf_index, commit_calls, dmaVars, published,
                   acked>>

\* audio_set_volume (audio.c 549-553), between two frames.
AudioSetVolume(volume) ==
    /\ epc = "top"
    /\ ~frame_ready
    /\ master_volume' = VolumeClamp(volume)
    /\ UNCHANGED <<cfgVars, sideVars, logVars, lpf_state, prev_tail, ym_read_end, sn_read_end,
                   regVars, epc, frame_num, skipVars, levelVars, chipVars,
                   writeVars, frame_ready, audio_done, recordVars, apc,
                   submitVars, dmaVars, published, acked>>

\* Audio running with the fade state as audio_init left it; the start-up
\* mute is at its beginning, at its last frame or over.
InitMix ==
    /\ InitState
    /\ audio_enabled = TRUE
    /\ startup_frame_counter \in
          {0, STARTUP_FADE_FRAMES - 1, STARTUP_FADE_FRAMES}
    /\ lpf_state = 0
    /\ mixed_buffer = [path |-> "none", data |-> AllZero]
    /\ enable_constant = TRUE /\ enable_adaptive = FALSE
    /\ reg_pal = FALSE /\ reg_h40 = TRUE
    /\ frameskip_level = 3
    /\ frameskip_pattern_len = 6 /\ frameskip_pattern_mask = 9

NextMix ==
    \/ \E inp \in MixInputs : EmulateAndPublish(inp, MixFrames)
    \/ SoundCoreMix
    \/ \E enabled \in BOOLEAN : AudioSetEnabled(enabled)
    \/ \E volume \in Volumes : AudioSetVolume(volume)

SpecMix == InitMix /\ [][NextMix]_vars

\* The silence loop started from each fade state, audio disabled throughout.
InitFade ==
    /\ InitState
    /\ audio_enabled = FALSE
    /\ startup_frame_counter = STARTUP_FADE_FRAMES
    /\ lpf_state \in FadeStates
    /\ mixed_buffer = [path |-> "none", data |-> AllZero]
    /\ enable_constant = TRUE /\ enable_adaptive = FALSE
    /\ reg_pal = FALSE /\ reg_h40 = TRUE
    /\ frameskip_level = 3
    /\ frameskip_pattern_len = 6 /\ frameskip_pattern_mask = 9

NextFade ==
    \/ \E inp \in FadeInputs : EmulateAndPublish(inp, FadeFrames)
    \/ SoundCoreMix

SpecFade == InitFade /\ [][NextFade]_vars


\* --------------------------------------------- both cores scheduled fairly
\* emulation_loop, one step (main.c 625-1046), the settings menu closed.
Core0 ==
    \/ E_Top(MaxFrames)
    \/ E_RunFrame({TARGET_SAMPLES_NTSC}, WorkTimes, RenderTimes)
    \/ E_AudioWait(AudioWaits)
    \/ E_SaveCounts
    \/ E_Swap
    \/ E_FrameReady

\* sound_core, one step (main.c 571-587).
Core1 ==
    \/ S_WaitFrame
    \/ S_ReadShared
    \/ S_Mix
    \/ W_Claim
    \/ W_Fill
    \/ S_AudioDone

\* The DMA hardware finishes the buffer it is draining.
DmaStep == \E ch \in 0 .. (DMA_BUFFER_COUNT - 1) : DmaTransferComplete(ch)

NextLive ==
    \/ Core0
    \/ Core1
    \/ DmaStep
    \/ AudioDmaIrqHandler

\* Each core keeps executing, the DMA keeps completing transfers and its
\* interrupt is served.  At most one step of a core is enabled at a time, so
\* weak fairness of the core is weak fairness of each of its steps.
Fairness ==
    /\ WF_vars(Core0)
    /\ WF_vars(Core1)
    /\ WF_vars(DmaStep)
    /\ WF_vars(AudioDmaIrqHandler)

SpecLive == Init /\ [][NextLive]_vars /\ Fairness

\* The same, except that the DMA hardware may wedge at any time.
NextWedge ==
    \/ NextLive
    \/ DmaWedge

SpecWedge == Init /\ [][NextWedge]_vars /\ Fairness


\* ------------------------------------------------------ the PSG producer
\* The targets of the PSG register writes of a frame: the write's master
\* clock, from the start of the frame to the end of a PAL frame (about 1061
\* samples' worth), at, just below and just above whole samples.
PsgTargets ==
    { n * AUDIO_FREQ_DIVISOR + r :
         n \in {0, 1, 2, 100, 443, 500, 886, 887, 888, 889, 1060},
         r \in {0, 1, 504, 1008} }

\* emulation_loop (main.c 812-828): a frame starts, the producer's clock and
\* index are reset.
PsgFrameStart ==
    /\ epc = "top"
    /\ frame_num < PsgFrames
    /\ sn76489_clock' = 0
    /\ sn76489_index' = 0
    /\ ym2612_index' = 0
    /\ psg_max_target' = 0
    /\ epc' = "emulate"
    /\ UNCHANGED <<cfgVars, chunkVars, sliceVars, twinVars, waitVars, cpuVars, queueVars, ringVars, lineVars, logVars, mixVars, regVars, frame_num, skipVars,
                   levelVars, gwenesis_sn76489_buffer_mem,
                   gwenesis_ym2612_buffer_mem, writeVars, frame_ready,
                   audio_done, recordVars, apc, submitVars, dmaVars,
                   published, acked>>

\* gwenesis_SN76489_Write (gwenesis_sn76489.c 304-307) during the scanline
\* loop: the producer is run to the write's clock before the register
\* changes.
PsgWrite(target) ==
    /\ epc = "emulate"
    /\ LET r == SN76489Run(sn76489_clock, sn76489_index, target)
       IN  /\ sn76489_clock' = r.clock
           /\ sn76489_index' = r.index
    /\ psg_max_target' = IF target > psg_max_target THEN target
                         ELSE psg_max_target
    /\ UNCHANGED <<cfgVars, chunkVars, sliceVars, twinVars, waitVars, cpuVars, queueVars, ringVars, lineVars, logVars, mixVars, regVars, epc, frame_num,
                   skipVars, levelVars, ym2612_index,
                   gwenesis_sn76489_buffer_mem, gwenesis_ym2612_buffer_mem,
                   writeVars, frame_ready, audio_done, recordVars, apc,
                   submitVars, dmaVars, published, acked>>

\* emulation_loop (main.c 892-897): the sound flush,
\* gwenesis_SN76489_run(AUDIO_TARGET_CLOCK).
PsgFlush ==
    /\ epc = "emulate"
    /\ LET r == SN76489Run(sn76489_clock, sn76489_index, AUDIO_TARGET_CLOCK)
       IN  /\ sn76489_clock' = r.clock
           /\ sn76489_index' = r.index
    /\ psg_max_target' = IF AUDIO_TARGET_CLOCK > psg_max_target
                         THEN AUDIO_TARGET_CLOCK ELSE psg_max_target
    /\ epc' = "wait"
    /\ UNCHANGED <<cfgVars, chunkVars, sliceVars, twinVars, waitVars, cpuVars, queueVars, ringVars, lineVars, logVars, mixVars, regVars, frame_num, skipVars,
                   levelVars, ym2612_index, gwenesis_sn76489_buffer_mem,
                   gwenesis_ym2612_buffer_mem, writeVars, frame_ready,
                   audio_done, recordVars, apc, submitVars, dmaVars,
                   published, acked>>

\* emulation_loop (main.c 1033-1046): the frame is counted and the loop
\* starts over.
PsgFrameEnd ==
    /\ epc = "wait"
    /\ frame_num' = frame_num + 1
    /\ epc' = "top"
    /\ UNCHANGED <<cfgVars, sideVars, logVars, mixVars, regVars, skipVars,
                   levelVars, chipVars, writeVars, frame_ready, audio_done,
                   recordVars, apc, submitVars, dmaVars, published, acked>>

NextPsg ==
    \/ PsgFrameStart
    \/ \E target \in PsgTargets : PsgWrite(target)
    \/ PsgFlush
    \/ PsgFrameEnd

SpecPsg == Init /\ [][NextPsg]_vars


\* gwenesis_SN76489_run on its own: targets up to and beyond what a slot of
\* AUDIO_BUFFER_SIZE samples holds and what the cap of 4095 lets through,
\* at and just below whole samples.
PsgRunTargets ==
    { n * AUDIO_FREQ_DIVISOR + r :
         n \in {0, 1, 888, 1060, 2047, 2048, 2049, 4095, 4096, 5000},
         r \in {0, 504, 1008} }

\* emulation_loop (main.c 825-826): a frame starts, the producer's clock
\* and index are reset.
PsgRunReset ==
    /\ sn76489_clock' = 0
    /\ sn76489_index' = 0
    /\ UNCHANGED <<cfgVars, chunkVars, sliceVars, twinVars, waitVars, cpuVars,
                   queueVars, ringVars, lineVars, logVars, mixVars, regVars,
                   epc, frame_num, skipVars, levelVars, ym2612_index,
                   psg_max_target,
                   gwenesis_sn76489_buffer_mem, gwenesis_ym2612_buffer_mem,
                   writeVars, frame_ready, audio_done, recordVars, apc,
                   submitVars, dmaVars, published, acked>>

\* gwenesis_SN76489_run(target) (gwenesis_sn76489.c 284-303) from whatever
\* clock and index the calls before it have left.
PsgRun(target) ==
    /\ LET r == SN76489Run(sn76489_clock, sn76489_index, target)
       IN  /\ sn76489_clock' = r.clock
           /\ sn76489_index' = r.index
    /\ psg_max_target' = IF target > psg_max_target THEN target
                         ELSE psg_max_target
    /\ UNCHANGED <<cfgVars, chunkVars, sliceVars, twinVars, waitVars, cpuVars,
                   queueVars, ringVars, lineVars, logVars, mixVars, regVars,
                   epc, frame_num, skipVars, levelVars, ym2612_index,
                   gwenesis_sn76489_buffer_mem, gwenesis_ym2612_buffer_mem,
                   writeVars, frame_ready, audio_done, recordVars, apc,
                   submitVars, dmaVars, published, acked>>

NextPsgRun ==
    \/ PsgRunReset
    \/ \E target \in PsgRunTargets : PsgRun(target)

SpecPsgRun == Init /\ [][NextPsgRun]_vars


\* --------------------------------------- real-time driver: command queue
\* cmd_queue_push (audio_realtime.c 338-342), called on core 0 with the next
\* command: the full check; a full queue counts an overflow and returns
\* false.
Q_PushCheck ==
    /\ push_pc = "idle"
    /\ push_calls < QueuePushes
    /\ push_calls' = push_calls + 1
    /\ IF QueueIsFull(cmd_write_idx, cmd_read_idx)
       THEN /\ queue_overflows' = queue_overflows + 1
            /\ UNCHANGED push_pc
       ELSE /\ push_pc' = "store"
            /\ UNCHANGED queue_overflows
    /\ UNCHANGED <<cfgVars, chunkVars, sliceVars, twinVars, waitVars, cpuVars, psgVars, ringVars, lineVars, cmd_queue, cmd_write_idx, cmd_read_idx,
                   commands_processed, pop_pc, pop_cmd, accepted,
                   pop_order_ok, logVars, mixVars, regVars, epc, frame_num,
                   skipVars, levelVars, chipVars, writeVars, frame_ready,
                   audio_done, recordVars, apc, submitVars, dmaVars,
                   published, acked>>

\* cmd_queue_push (audio_realtime.c 344): the command is stored in the slot
\* at the write index.  Accepted commands are numbered from 1.
Q_PushStore ==
    /\ push_pc = "store"
    /\ cmd_queue' = [i \in DOMAIN cmd_queue \cup {cmd_write_idx} |->
                        IF i = cmd_write_idx THEN accepted + 1
                        ELSE cmd_queue[i]]
    /\ push_pc' = "publish"
    /\ UNCHANGED <<cfgVars, chunkVars, sliceVars, twinVars, waitVars, cpuVars, psgVars, ringVars, lineVars, cmd_write_idx, cmd_read_idx,
                   queue_overflows, commands_processed, pop_pc, pop_cmd,
                   push_calls, accepted, pop_order_ok, logVars, mixVars,
                   regVars, epc, frame_num, skipVars, levelVars, chipVars,
                   writeVars, frame_ready, audio_done, recordVars, apc,
                   submitVars, dmaVars, published, acked>>

\* cmd_queue_push (audio_realtime.c 345-354): the write index moves on and
\* the push returns true.  (The max_queue_depth statistic is left out.)
Q_PushPublish ==
    /\ push_pc = "publish"
    /\ cmd_write_idx' = QueueMask(cmd_write_idx + 1)
    /\ accepted' = accepted + 1
    /\ push_pc' = "idle"
    /\ UNCHANGED <<cfgVars, chunkVars, sliceVars, twinVars, waitVars, cpuVars, psgVars, ringVars, lineVars, cmd_queue, cmd_read_idx,
                   queue_overflows, commands_processed, pop_pc, pop_cmd,
                   push_calls, pop_order_ok, logVars, mixVars, regVars, epc,
                   frame_num, skipVars, levelVars, chipVars, writeVars,
                   frame_ready, audio_done, recordVars, apc, submitVars,
                   dmaVars, published, acked>>

\* cmd_queue_pop (audio_realtime.c 357-360), called on core 1: the empty
\* check (an empty queue returns false and changes nothing).
Q_PopCheck ==
    /\ pop_pc = "idle"
    /\ ~QueueIsEmpty(cmd_write_idx, cmd_read_idx)
    /\ pop_pc' = "load"
    /\ UNCHANGED <<cfgVars, chunkVars, sliceVars, twinVars, waitVars, cpuVars, psgVars, ringVars, lineVars, cmd_queue, cmd_write_idx, cmd_read_idx,
                   queue_overflows, commands_processed, push_pc, pop_cmd,
                   push_calls, accepted, pop_order_ok, logVars, mixVars,
                   regVars, epc, frame_num, skipVars, levelVars, chipVars,
                   writeVars, frame_ready, audio_done, recordVars, apc,
                   submitVars, dmaVars, published, acked>>

\* cmd_queue_pop (audio_realtime.c 362): the command is copied out of the
\* slot at the read index.
Q_PopLoad ==
    /\ pop_pc = "load"
    /\ pop_cmd' = QueueSlot(cmd_queue, cmd_read_idx)
    /\ pop_pc' = "advance"
    /\ UNCHANGED <<cfgVars, chunkVars, sliceVars, twinVars, waitVars, cpuVars, psgVars, ringVars, lineVars, cmd_queue, cmd_write_idx, cmd_read_idx,
                   queue_overflows, commands_processed, push_pc, push_calls,
                   accepted, pop_order_ok, logVars, mixVars, regVars, epc,
                   frame_num, skipVars, levelVars, chipVars, writeVars,
                   frame_ready, audio_done, recordVars, apc, submitVars,
                   dmaVars, published, acked>>

\* cmd_queue_pop (audio_realtime.c 363-367): the read index moves on, the
\* command is counted and handed to the caller.
Q_PopAdvance ==
    /\ pop_pc = "advance"
    /\ cmd_read_idx' = QueueMask(cmd_read_idx + 1)
    /\ commands_processed' = commands_processed + 1
    /\ pop_order_ok' = (pop_order_ok /\ pop_cmd = commands_processed + 1)
    /\ pop_pc' = "idle"
    /\ UNCHANGED <<cfgVars, chunkVars, sliceVars, twinVars, waitVars, cpuVars, psgVars, ringVars, lineVars, cmd_queue, cmd_write_idx,
                   queue_overflows, push_pc, pop_cmd, push_calls, accepted,
                   logVars, mixVars, regVars, epc, frame_num, skipVars,
                   levelVars, chipVars, writeVars, frame_ready, audio_done,
                   recordVars, apc, submitVars, dmaVars, published, acked>>

NextQueue ==
    \/ Q_PushCheck
    \/ Q_PushStore
    \/ Q_PushPublish
    \/ Q_PopCheck
    \/ Q_PopLoad
    \/ Q_PopAdvance

SpecQueue == Init /\ [][NextQueue]_vars


\* ------------------------------------------ real-time driver: the ring
\* The rest of the model stands still while the ring moves.
RingFrame ==
    UNCHANGED <<cfgVars, sliceVars, twinVars, waitVars, cpuVars, psgVars, queueVars, lineVars, logVars, mixVars,
                regVars, epc, frame_num, skipVars, levelVars, chipVars, writeVars,
                frame_ready, audio_done, recordVars, apc, submitVars,
                dmaVars, published, acked>>

\* audio_rt_core1_main's loop (audio_realtime.c 735-745) and
\* write_to_ring_buffer (665-686): while fewer than RING_BUFFER_COUNT - 1
\* buffers wait, one chunk goes into the buffer at the write index; a
\* complete buffer moves the write index on and is counted, with interrupts
\* off.  The handler runs on this core, so the loop stands still meanwhile.
R_WriteChunk ==
    /\ irq_pc = "idle"
    /\ ring_count < RING_BUFFER_COUNT - 1
    /\ ring_buffers' = [ring_buffers EXCEPT ![ring_write_idx] = "samples"]
    /\ chunk_dropped' =
           SAMPLES_PER_CHUNK - ChunkStored(buffer_sample_idx, SAMPLES_PER_CHUNK)
    /\ IF buffer_sample_idx + SAMPLES_PER_CHUNK >= RING_BUFFER_SAMPLES
       THEN /\ ring_write_idx' = (ring_write_idx + 1) % RING_BUFFER_COUNT
            /\ ring_count' = ring_count + 1
            /\ buffer_sample_idx' = 0
       ELSE /\ buffer_sample_idx' = buffer_sample_idx + SAMPLES_PER_CHUNK
            /\ UNCHANGED <<ring_write_idx, ring_count>>
    /\ UNCHANGED <<ring_read_idx, buffer_underruns, ring_read_addr,
                   ring_busy, ring_ints, irq_pc, irq_ints, ring_plays>>
    /\ RingFrame

\* The DMA hardware: the running channel finishes its buffer, raises its
\* interrupt bit and chains to the other channel (audio_realtime.c 296-303).
R_DmaComplete ==
    /\ ring_plays < RingPlays
    /\ ring_plays' = ring_plays + 1
    /\ ring_ints' = ring_ints \cup {ring_busy}
    /\ ring_busy' = ChainTo(ring_busy)
    /\ UNCHANGED <<ring_buffers, ring_write_idx, ring_read_idx, ring_count,
                   buffer_sample_idx, buffer_underruns, ring_read_addr,
                   irq_pc, irq_ints>>
    /\ UNCHANGED chunkVars
    /\ RingFrame

\* audio_rt_dma_irq_handler entry (audio_realtime.c 221): the pending bits
\* are read once.
R_IrqEnter ==
    /\ irq_pc = "idle"
    /\ ring_ints # {}
    /\ irq_ints' = ring_ints
    /\ irq_pc' = "A"
    /\ UNCHANGED <<ring_buffers, ring_write_idx, ring_read_idx, ring_count,
                   buffer_sample_idx, buffer_underruns, ring_read_addr,
                   ring_busy, ring_ints, ring_plays>>
    /\ UNCHANGED chunkVars
    /\ RingFrame

\* audio_rt_dma_irq_handler, channel c (audio_realtime.c 224-245 for A,
\* 248-266 for B): the bit is acknowledged, the ring is moved on or the
\* underrun counted, an empty ring gets the next buffer zeroed, and the
\* channel is re-armed on the buffer at the read index.
R_IrqChannel(c) ==
    /\ irq_pc = c
    /\ irq_pc' = (IF c = "A" THEN "B" ELSE "idle")
    /\ IF c \in irq_ints
       THEN LET after == RingComplete(ring_read_idx, ring_count,
                                      buffer_underruns)
            IN  /\ ring_ints' = ring_ints \ {c}
                /\ ring_read_idx' = after.read
                /\ ring_count' = after.count
                /\ buffer_underruns' = after.underruns
                /\ ring_buffers' =
                      IF after.count = 0
                      THEN [ring_buffers EXCEPT ![after.read] = "zero"]
                      ELSE ring_buffers
                /\ ring_read_addr' = [ring_read_addr EXCEPT ![c] = after.read]
       ELSE UNCHANGED <<ring_ints, ring_read_idx, ring_count,
                        buffer_underruns, ring_buffers, ring_read_addr>>
    /\ UNCHANGED <<ring_write_idx, buffer_sample_idx, ring_busy, irq_ints,
                   ring_plays>>
    /\ UNCHANGED chunkVars
    /\ RingFrame

NextRing ==
    \/ R_WriteChunk
    \/ R_DmaComplete
    \/ R_IrqEnter
    \/ \E c \in Channels : R_IrqChannel(c)

SpecRing == Init /\ [][NextRing]_vars


\* ------------------------------------------------------ the scanline loop
\* What stands still while the scanline loop runs.
LineFrame ==
    UNCHANGED <<cfgVars, chunkVars, twinVars, waitVars, cpuVars, psgVars, queueVars, ringVars, logVars, mixVars,
                reg_h40, consecutive_skipped_frames, screen_width,
                last_screen_width, last_screen_height, force_render,
                render_this_frame, frame_budget_us, frame_work_us, backlog_us,
                render_cost_ema_us, force_render_next, frameskip_rng,
                rendered_frames, last_render, dim_changed, levelVars,
                chipVars, writeVars, frame_ready, audio_done, recordVars,
                apc, submitVars, dmaVars, published, acked>>

\* Top of a frame (main.c 728-738, 812-813): the line counter is loaded,
\* the frame's height and length are taken from the PAL bit, the scanline
\* counter restarts.
L_FrameStart ==
    /\ epc = "top"
    /\ frame_num < LineFrames
    /\ hint_counter' = gwenesis_vdp_regs10
    /\ screen_height' = ScreenHeight(reg_pal)
    /\ lines_per_frame' = LinesPerFrame(reg_pal)
    /\ scan_line' = 0
    /\ hint_raised' = FALSE /\ vint_raised' = FALSE
    /\ z80_irq_served' = "none"
    /\ epc' = "emulate"
    /\ UNCHANGED <<reg_pal, frame_num, gwenesis_vdp_regs10,
                   reg_line_interrupt, reg_vblank_interrupt, hint_pending,
                   reset_once, z80_irequest>>
    /\ LineFrame

\* One turn of the scanline loop (main.c 840-890).  The 68000 runs the line
\* first: it may rewrite the video registers, acknowledge a pending line
\* interrupt, and take the Z80 out of reset (z80inst.c 200-206); then the
\* line counter, the scanline counter, the frame interrupt and the Z80
\* interrupt line are worked as coded.
L_Line ==
    /\ epc = "emulate"
    /\ scan_line < lines_per_frame
    /\ \E r10 \in (IF scan_line \in WriteLines THEN Reg10Values
                                              ELSE {gwenesis_vdp_regs10}),
          li \in (IF scan_line \in WriteLines THEN BOOLEAN
                                              ELSE {reg_line_interrupt}),
          vi \in (IF scan_line \in WriteLines THEN BOOLEAN
                                              ELSE {reg_vblank_interrupt}),
          pal \in (IF scan_line \in WriteLines THEN BOOLEAN ELSE {reg_pal}),
          once \in (IF scan_line \in WriteLines THEN {reset_once, TRUE}
                                                ELSE {reset_once}),
          pend \in (IF scan_line \in WriteLines THEN {hint_pending, FALSE}
                                                ELSE {hint_pending}) :
          LET loaded == IF HintReload(scan_line, screen_height)
                        THEN r10 ELSE hint_counter
              under == loaded - 1 < 0
              raise == under /\ li /\ HintRegion(scan_line, screen_height)
              line == scan_line + 1
              req1 == IF line = screen_height
                      THEN Z80IrqLine(once, z80_irequest, TRUE)
                      ELSE z80_irequest
              req2 == IF line = screen_height + 1
                      THEN Z80IrqLine(once, req1, FALSE)
                      ELSE req1
              ran == IF z80_irq_served = "asserted"
                        /\ Z80SliceEnds(scan_line, lines_per_frame)
                     THEN "ran" ELSE z80_irq_served
              set == IF ~z80_irequest /\ req1 THEN "asserted" ELSE ran
          IN  /\ z80_irq_served' = IF req1 /\ ~req2 /\ set = "asserted"
                                   THEN "missed" ELSE set
              /\ gwenesis_vdp_regs10' = r10
              /\ reg_line_interrupt' = li
              /\ reg_vblank_interrupt' = vi
              /\ reg_pal' = pal
              /\ reset_once' = once
              /\ hint_counter' = IF under THEN r10 ELSE loaded - 1
              /\ hint_pending' = (raise \/ pend)
              /\ hint_raised' = raise
              /\ scan_line' = line
              /\ vint_raised' = (line = screen_height /\ vi)
              /\ z80_irequest' = req2
    /\ UNCHANGED <<epc, frame_num, screen_height, lines_per_frame>>
    /\ LineFrame

\* The loop is left after the frame's last scanline; the frame is counted
\* (main.c 840, 1033).
L_FrameEnd ==
    /\ epc = "emulate"
    /\ scan_line = lines_per_frame
    /\ frame_num' = frame_num + 1
    /\ epc' = "top"
    /\ UNCHANGED <<lineVars, sliceVars, reg_pal, screen_height>>
    /\ LineFrame

NextLine ==
    \/ L_FrameStart
    \/ L_Line
    \/ L_FrameEnd

SpecLine == Init /\ [][NextLine]_vars


\* ------------------------------------------------------- the CPU adapters
\* What stands still while the CPU adapters are exercised.
CpuFrame ==
    UNCHANGED <<cfgVars, chunkVars, sliceVars, twinVars, waitVars, psgVars, queueVars, ringVars, scan_line,
                lines_per_frame, hint_counter, gwenesis_vdp_regs10,
                reg_line_interrupt, reg_vblank_interrupt, hint_pending,
                hint_raised, vint_raised, logVars, mixVars, regVars, epc,
                frame_num, skipVars, levelVars, chipVars, writeVars,
                frame_ready, audio_done, recordVars, apc, submitVars,
                dmaVars, published, acked>>

\* The build (USE_Z80_GPX) and the Z80 setting taken over at start-up
\* (main.c 1152).
C_Boot ==
    /\ cpu_pc = "boot"
    /\ cpu_pc' = "run"
    /\ z80_enabled' \in BOOLEAN
    /\ use_z80_gpx' \in BOOLEAN
    /\ UNCHANGED <<m68k_cycles, cpu_stopped, m68k_execs, zclk, bus_ack,
                   z80_reset, z80_halt, z80_execs, cpu_call, cpu_calls,
                   reset_once, z80_irequest>>
    /\ CpuFrame

\* What the emulated program does between two calls: the 68000 stops or is
\* woken, it requests the Z80 bus or puts the Z80 in or out of reset
\* (z80inst.c 190-207), the Z80 halts or takes an interrupt request.
C_Control ==
    /\ cpu_pc = "run"
    /\ cpu_stopped' \in BOOLEAN
    /\ bus_ack' \in BOOLEAN
    /\ \E rst \in BOOLEAN :
          /\ z80_reset' = rst
          /\ reset_once' = (reset_once \/ ~rst)
    /\ z80_halt' \in BOOLEAN
    /\ z80_irequest' = Z80IrqLine(reset_once', z80_irequest, ~z80_irequest)
    /\ UNCHANGED <<cpu_pc, m68k_cycles, m68k_execs, zclk, z80_enabled,
                   use_z80_gpx, z80_execs, cpu_call, cpu_calls>>
    /\ CpuFrame

\* m68k_run(target) (m68kcpu.c 509-565).
C_M68kRun(target) ==
    /\ cpu_pc = "run"
    /\ cpu_calls < CpuCalls
    /\ cpu_calls' = cpu_calls + 1
    /\ \E cost \in M68kCosts :
          LET after == M68kRun(m68k_cycles, m68k_execs, cpu_stopped, target,
                               cost)
          IN  /\ m68k_cycles' = after.cycles
              /\ m68k_execs' = after.execs
    /\ cpu_call' = [cpu |-> "m68k", target |-> target,
                    before |-> m68k_cycles, execs |-> m68k_execs]
    /\ UNCHANGED <<cpu_pc, cpu_stopped, zclk, z80_enabled, use_z80_gpx,
                   bus_ack, z80_reset, z80_halt, z80_execs, reset_once,
                   z80_irequest>>
    /\ CpuFrame

\* z80_run(target) of the build in use (z80inst.c 114-166,
\* z80inst_gpx.c 120-171).
C_Z80Run(target) ==
    /\ cpu_pc = "run"
    /\ cpu_calls < CpuCalls
    /\ cpu_calls' = cpu_calls + 1
    /\ \E rem \in Z80Rems :
          LET runs == Z80Runs(reset_once, bus_ack, z80_reset)
              idle == z80_halt /\ ~z80_irequest
              after == IF use_z80_gpx
                       THEN Z80RunGpx(zclk, z80_execs, target, runs, idle, rem)
                       ELSE Z80Run(z80_enabled, zclk, z80_execs, target, runs,
                                   idle, rem)
          IN  /\ zclk' = after.zclk
              /\ z80_execs' = after.execs
    /\ cpu_call' = [cpu |-> "z80", target |-> target, before |-> zclk,
                    execs |-> z80_execs]
    /\ UNCHANGED <<cpu_pc, m68k_cycles, cpu_stopped, m68k_execs, z80_enabled,
                   use_z80_gpx, bus_ack, z80_reset, z80_halt, reset_once,
                   z80_irequest>>
    /\ CpuFrame

NextCpu ==
    \/ C_Boot
    \/ C_Control
    \/ \E target \in CpuTargets : C_M68kRun(target)
    \/ \E target \in CpuTargets : C_Z80Run(target)

SpecCpu == Init /\ [][NextCpu]_vars


\* ------------------------------------------- two runs on the same inputs
\* The render decision of a frame (main.c 751-792) from a run's state.
TwinDecision(t, force) ==
    LET r1 == IF t.enable_constant
              THEN PatternRender(t.frameskip_pattern_len,
                                 t.frameskip_pattern_mask, t.frame_num)
              ELSE TRUE
        skip_mode == InSkipMode(t.backlog_us, t.render_cost_ema_us)
        r2 == IF ~t.enable_adaptive THEN r1
              ELSE IF t.force_render_next # 0 THEN TRUE
              ELSE IF skip_mode /\ EstimatedRenderCost(t.render_cost_ema_us) # 0
                   THEN FALSE
              ELSE r1
        fnext == IF t.enable_adaptive /\ t.force_render_next # 0
                 THEN t.force_render_next - 1 ELSE t.force_render_next
        roll == t.enable_adaptive /\ ~r2 /\ skip_mode
        rng == IF roll THEN RngStep(t.frameskip_rng) ELSE t.frameskip_rng
        r3 == IF roll /\ (rng % (FRAMESKIP_DITHER_MASK + 1)) = 0 THEN TRUE ELSE r2
        r4 == SafetyRender(r3, t.consecutive_skipped_frames)
        r5 == ForceRender(r4, force)
    IN  [render |-> r5, fnext |-> fnext, rng |-> rng]

\* One frame of emulation_loop (main.c 729-1033) from a run's state t, on
\* the emulated inputs inp (video mode, the chips' sample counts) and the
\* run's own timings env: the run's next state and what the frame called.
TwinFrame(t, inp, env) ==
    LET w == IF inp.h40 THEN 320 ELSE 256
        h == ScreenHeight(inp.pal)
        force == (w # t.last_screen_width) \/ (h # t.last_screen_height)
        budget == IF t.enable_adaptive THEN FrameBudget(inp.pal)
                                       ELSE t.frame_budget_us
        d == TwinDecision(t, force)
        paid == IF t.enable_adaptive /\ ~d.render /\ t.backlog_us # 0
                THEN Paydown(t.backlog_us, t.render_cost_ema_us)
                ELSE t.backlog_us
        ema == IF t.enable_adaptive /\ d.render
               THEN EmaUpdate(t.render_cost_ema_us, env.render_us)
               ELSE t.render_cost_ema_us
        skipped == IF d.render THEN 0 ELSE t.consecutive_skipped_frames + 1
        burst == IF /\ t.enable_adaptive
                    /\ d.render /\ ~force /\ d.fnext = 0
                    /\ (InSkipMode(paid, ema) \/ skipped > 0)
                    /\ FRAMESKIP_RENDER_BURST_LEN > 1
                 THEN FRAMESKIP_RENDER_BURST_LEN - 1
                 ELSE d.fnext
        backlog == IF t.enable_adaptive
                   THEN BacklogUpdate(paid, env.work_us, budget, env.wait_us)
                   ELSE paid
    IN  [state |-> [t EXCEPT !.frame_num = t.frame_num + 1,
                             !.consecutive_skipped_frames = skipped,
                             !.last_screen_width = w,
                             !.last_screen_height = h,
                             !.frame_budget_us = budget,
                             !.backlog_us = backlog,
                             !.render_cost_ema_us = ema,
                             !.force_render_next = burst,
                             !.frameskip_rng = d.rng,
                             !.audio_write_buffer =
                                 SwapSlot(t.audio_write_buffer)],
         calls |-> FrameCalls(d.render, LinesPerFrame(inp.pal), h,
                              t.audio_write_buffer, inp.ym, inp.sn)]

TwinFrame_Other ==
    UNCHANGED <<cfgVars, chunkVars, sliceVars, psgVars, queueVars, ringVars, lineVars, cpuVars,
                waitVars, logVars, mixVars, regVars, epc, frame_num,
                skipVars, levelVars, chipVars, writeVars, frame_ready,
                audio_done, recordVars, apc, submitVars, dmaVars, published,
                acked>>

\* The policies a run is built and configured with: the constant pattern
\* of a level of the table, or the adaptive controller.
TwinPolicies ==
    {[TwinStart(frameskip_patterns[level + 1][1],
                frameskip_patterns[level + 1][2])
         EXCEPT !.enable_constant = TRUE, !.enable_adaptive = FALSE] :
        level \in TwinLevels}
    \cup {[TwinStart(6, 9) EXCEPT !.enable_constant = FALSE,
                                  !.enable_adaptive = TRUE]}

\* The two runs start, each under its own policy.
T_Boot ==
    /\ twin_pc = "boot"
    /\ twin_pc' = "run"
    /\ \E p1 \in TwinPolicies, p2 \in TwinPolicies :
          twin' = [r \in 1 .. 2 |-> IF r = 1 THEN p1 ELSE p2]
    /\ UNCHANGED <<twin_frame, twin_calls>>
    /\ TwinFrame_Other

\* What a run takes from the clock in one frame: nothing is measured with
\* the adaptive controller compiled out.
TwinTimings(t) ==
    IF t.enable_adaptive
    THEN [work_us : WorkTimes, render_us : {3000}, wait_us : AudioWaits]
    ELSE {[work_us |-> 0, render_us |-> 0, wait_us |-> 0]}

\* Both runs emulate their next frame on the same emulated inputs, each
\* with its own timings.
T_Frame ==
    /\ twin_pc = "run"
    /\ twin_frame < TwinFrames
    /\ twin_frame' = twin_frame + 1
    /\ \E pal \in BOOLEAN, h40 \in {TRUE}, ym \in ChipCounts,
          sn \in ChipCounts :
          \E e1 \in TwinTimings(twin[1]), e2 \in TwinTimings(twin[2]) :
             LET inp == [pal |-> pal, h40 |-> h40, ym |-> ym, sn |-> sn]
                 f1 == TwinFrame(twin[1], inp, e1)
                 f2 == TwinFrame(twin[2], inp, e2)
             IN  /\ twin' = [r \in 1 .. 2 |->
                                IF r = 1 THEN f1.state ELSE f2.state]
                 /\ twin_calls' = [r \in 1 .. 2 |->
                                IF r = 1 THEN f1.calls ELSE f2.calls]
    /\ UNCHANGED twin_pc
    /\ TwinFrame_Other

NextTwin ==
    \/ T_Boot
    \/ T_Frame

SpecTwin == Init /\ [][NextTwin]_vars


\* ----------------------------------------------------------- start-up
\* What a warm reset can leave in the hand-off record (the reset button does
\* not zero .bss): flags, counts, write slot and read pointers of the
\* previous session.
WarmCounts == {0, TARGET_SAMPLES_NTSC}
WarmPointers == {NULL, 0, 1}

\* main() (main.c 1070-1084): the reset of the hand-off record.
MainReset ==
    /\ epc = "boot"
    /\ frame_ready' = FALSE
    /\ audio_done' = TRUE
    /\ audio_write_buffer' = 0
    /\ sn76489_index' = 0
    /\ ym2612_index' = 0
    /\ saved_ym_samples' = 0
    /\ saved_sn_samples' = 0
    /\ audio_read_sn76489' = NULL
    /\ audio_read_ym2612' = NULL
    /\ epc' = "init"
    /\ UNCHANGED <<cfgVars, sideVars, logVars, mixVars, regVars, frame_num, skipVars,
                   levelVars, gwenesis_sn76489_buffer_mem,
                   gwenesis_ym2612_buffer_mem, gwenesis_sn76489_buffer,
                   gwenesis_ym2612_buffer, apc, submitVars, dmaVars,
                   published, acked>>

\* main() (main.c 1209-1224): the chip buffers are zeroed, the write and
\* read pointers set to slot 0, core 1 launched (sound_core runs audio_init
\* and reaches its frame_ready wait) and emulation_loop entered.
MainLaunch ==
    /\ epc = "init"
    /\ gwenesis_sn76489_buffer_mem' = [s \in 0 .. 1 |-> Zeroed]
    /\ gwenesis_ym2612_buffer_mem' = [s \in 0 .. 1 |-> Zeroed]
    /\ gwenesis_sn76489_buffer' = 0
    /\ gwenesis_ym2612_buffer' = 0
    /\ audio_read_sn76489' = 0
    /\ audio_read_ym2612' = 0
    /\ startup_frame_counter' = 0
    /\ lpf_state' = 0
    /\ apc' = "wait"
    /\ epc' = "top"
    /\ UNCHANGED <<cfgVars, sideVars, logVars, master_volume, prev_tail, ym_read_end,
                   sn_read_end, regVars, frame_num, skipVars, levelVars,
                   sn76489_index, ym2612_index, audio_write_buffer,
                   frame_ready, audio_done, saved_ym_samples,
                   saved_sn_samples, audio_enabled, ym_buffer, sn_buffer,
                   ym_samples, sn_samples, mixed_buffer, sample_count,
                   buf_index, commit_calls, dmaVars, published, acked>>

\* main() is entered after a warm reset, core 1 not yet launched.
InitBoot ==
    /\ InitRest
    /\ epc = "boot" /\ apc = "off"
    /\ frame_ready \in BOOLEAN /\ audio_done \in BOOLEAN
    /\ audio_write_buffer \in 0 .. 1
    /\ \E n \in WarmCounts : sn76489_index = n /\ ym2612_index = n
    /\ saved_ym_samples \in WarmCounts /\ saved_sn_samples \in WarmCounts
    /\ \E ptr \in WarmPointers :
          audio_read_sn76489 = ptr /\ audio_read_ym2612 = ptr
    /\ audio_enabled = TRUE
    /\ startup_frame_counter \in {0, STARTUP_FADE_FRAMES}
    /\ lpf_state = 0
    /\ mixed_buffer = [path |-> "none", ym |-> Zeroed, sn |-> Zeroed]
    /\ enable_constant = TRUE /\ enable_adaptive = FALSE
    /\ reg_pal = FALSE /\ reg_h40 = TRUE
    /\ frameskip_level = 3
    /\ frameskip_pattern_len = 6 /\ frameskip_pattern_mask = 9

NextBoot ==
    \/ MainReset
    \/ MainLaunch
    \/ NextLive

SpecBoot == InitBoot /\ [][NextBoot]_vars


\* ------------------------------------------------------------------ claims
\* Core 1 is between observing frame_ready and setting audio_done.
AudioReading == apc \in {"submit", "mix", "claim", "fill", "done"}

\* Core 0 is past the audio wait of the frame it is about to publish.
Publishing == epc \in {"publish", "swap", "ready"}

\* C1: hand-off exclusivity.  While core 1 mixes frame k (k = acked), the
\* write slot of each chip differs from the published read slot, the read
\* slot holds frame k completely written and is not being rewritten, and
\* what the mix has read is frame k, complete.
C1_HandoffExclusive ==
    AudioReading =>
        /\ gwenesis_ym2612_buffer # audio_read_ym2612
        /\ gwenesis_sn76489_buffer # audio_read_sn76489
        /\ gwenesis_ym2612_buffer_mem[audio_read_ym2612]
               = [frame |-> acked, full |-> TRUE]
        /\ gwenesis_sn76489_buffer_mem[audio_read_sn76489]
               = [frame |-> acked, full |-> TRUE]
        /\ (apc \in {"mix", "claim", "fill", "done"} =>
               /\ ym_buffer = audio_read_ym2612
               /\ sn_buffer = audio_read_sn76489)
        /\ (apc \in {"claim", "fill", "done"}
                /\ mixed_buffer.path \in {"mute", "mix"} =>
               /\ mixed_buffer.ym = [frame |-> acked, full |-> TRUE]
               /\ mixed_buffer.sn = [frame |-> acked, full |-> TRUE])

\* Core 1 has mixed frame 1 from the read slot while core 0 is in the middle
\* of writing frame 2 into the other slot.
C1_Witness ==
    /\ apc = "claim"
    /\ mixed_buffer.path = "mute"
    /\ acked = 1
    /\ epc = "emulate"
    /\ frame_num = 2
    /\ gwenesis_ym2612_buffer_mem[gwenesis_ym2612_buffer]
           = [frame |-> 2, full |-> FALSE]

\* C2: at most one frame in flight.  Core 0 is in its publish phase (writing
\* the record, swapping, setting frame_ready) only when every frame it has
\* published has been acknowledged, and published - acked is 0 or 1.
C2_OneInFlight ==
    /\ published - acked \in {0, 1}
    /\ (Publishing => published = acked)
    /\ (Publishing => ~frame_ready /\ ~audio_done)

\* Core 0 writes the record of frame 2 after frame 1 was acknowledged.
C2_Witness ==
    /\ epc = "swap"
    /\ frame_num = 2
    /\ published = 2
    /\ acked = 2

\* C3: fixed audio cadence.  Every frame core 1 has taken has exactly one
\* commit, the commit's length is 888, and commits trail publishes by at
\* most one.
C3_FixedCadence ==
    /\ commit_calls = acked + (IF apc \in {"claim", "fill", "done"} THEN 1 ELSE 0)
    /\ published - commit_calls \in {0, 1}
    /\ (commit_calls > 0 => sample_count = TARGET_SAMPLES_NTSC)

\* The third commit is for a skipped frame and took the silence path; the
\* first was for a rendered frame.
C3_Witness ==
    /\ commit_calls = 3
    /\ apc = "fill"
    /\ mixed_buffer.path = "fade"
    /\ rendered_frames = 1
    /\ last_render = 0
    /\ sample_count = TARGET_SAMPLES_NTSC

\* C4: bounded skip streak.  consecutive_skipped_frames never exceeds
\* FRAMESKIP_MAX_CONSECUTIVE, and the frames emulated since the last
\* rendered one never number more than that.
C4_BoundedSkipStreak ==
    /\ consecutive_skipped_frames <= FRAMESKIP_MAX_CONSECUTIVE
    /\ (epc \in {"top", "emulate"} =>
           (frame_num - 1) - last_render <= FRAMESKIP_MAX_CONSECUTIVE)
    /\ (epc \in {"wait", "publish", "swap", "ready"} =>
           frame_num - last_render <= FRAMESKIP_MAX_CONSECUTIVE)

\* Four frames in a row were skipped and the safety, not the policy or a
\* dimension change, makes the next one render.
C4_Witness ==
    /\ epc = "emulate"
    /\ consecutive_skipped_frames = FRAMESKIP_MAX_CONSECUTIVE
    /\ ~force_render
    /\ render_this_frame
    /\ enable_constant
    /\ ~PatternRender(frameskip_pattern_len, frameskip_pattern_mask, frame_num)

\* C5: a frame whose dimensions differ from the previous frame's is rendered.
C5_DimensionChangeRenders ==
    /\ (epc = "emulate" /\ dim_changed => render_this_frame)
    /\ (epc \in {"wait", "publish", "swap", "ready"} /\ dim_changed =>
           last_render = frame_num)

\* A frame after the first changed dimensions at a phase the pattern skips,
\* and was rendered.
C5_Witness ==
    /\ epc = "wait"
    /\ dim_changed
    /\ frame_num > 0
    /\ enable_constant
    /\ ~PatternRender(frameskip_pattern_len, frameskip_pattern_mask, frame_num)
    /\ last_render = frame_num

C7_RendersSixMinusLevel ==
    (epc = "top" /\ frame_num % 6 = 0) =>
        rendered_frames = (frame_num \div 6) * (6 - frameskip_level)

\* C8: the hardware buffer software has claimed and is filling is not the
\* one a DMA channel is draining.
C8_FillNeverDrained ==
    apc = "fill" => dma_busy # buf_index

\* C9: while no buffer period has ended with the other buffer not yet
\* refilled, the buffers played are commits 0, 1, 2, ... in order.
C9_PlayedInCommitOrder ==
    ~late => \A i \in 1 .. Len(played) : played[i] = i - 1

\* Commits 0, 1 and 2 have been played in order, each once, and commit 3
\* is in the buffer now playing; the producer was never late.
C9_Witness ==
    /\ ~late
    /\ played = <<0, 1, 2>>
    /\ dma_busy = 1
    /\ dma_buffers[1] = 3

\* C10: a buffer the hardware reaches without a refill since it was last
\* played is played as silence (or a fade or held value), never as its
\* previous content.
C10_UnderrunPlaysSilence ==
    \A i \in 1 .. Len(played) : played_stale[i] => played[i] = SILENCE

\* C11: progress of the hand-off.  With both cores scheduled fairly and the
\* DMA completing transfers, every published frame is eventually
\* acknowledged and the emulation core eventually publishes the next frame
\* (up to the frames the model runs).
C11_HandoffProgress ==
    /\ \A k \in 1 .. MaxFrames : (published = k) ~> (acked = k)
    /\ \A k \in 0 .. (MaxFrames - 1) : (published = k) ~> (published = k + 1)

\* The fourth frame, whose commit had to wait for a buffer the hardware
\* released, has been acknowledged; the hardware never wedged.
C11_Witness ==
    /\ published = 4
    /\ acked = 4
    /\ ~dma_wedged
    /\ Len(played) >= 2

\* The DMA is wedged with no buffer free and no interrupt pending, the audio
\* core is in the free-buffer wait and the emulation core in the audio_done
\* wait of a later frame.
Stalled ==
    /\ dma_wedged
    /\ dma_ints = {}
    /\ audio_running
    /\ dma_buffers_free_mask = {}
    /\ apc = "claim"
    /\ epc = "wait"
    /\ ~audio_done
    /\ frame_num > 0

\* C12: fail-stop.  Once the DMA has wedged, both cores end up stalled
\* (unless the frames the model runs are used up first), and from the stalled
\* state no step leaves it: no frame is published any more.
C12_FailStop ==
    /\ [][Stalled => (Stalled' /\ published' = published)]_vars
    /\ dma_wedged ~> (Stalled \/ (epc = "top" /\ frame_num = MaxFrames))

\* Both cores are stalled with the third frame published and unacknowledged.
C12_Witness ==
    /\ Stalled
    /\ published = 3
    /\ acked = 2
    /\ frame_num = 3

\* C13: audio-driven pacing.  The frames published never exceed the DMA
\* buffer completions by more than 3.  (Len(played) counts the completions
\* up to MaxPlays, and MaxPlays + 3 is above the frames the model runs.)
C13_AudioPaced ==
    published <= Len(played) + 3

\* Three frames are published before any buffer has completed, and the
\* emulation core is held at its audio_done wait for the fourth.
C13_Witness ==
    /\ published = 3
    /\ Len(played) = 0
    /\ epc = "wait"
    /\ ~audio_done
    /\ apc = "claim"

\* C14: in the adaptive controller the backlog never exceeds the frame
\* budget times FRAMESKIP_MAX_BACKLOG_FRAMES, in any state.
C14_BacklogClamped ==
    enable_adaptive =>
        backlog_us <= frame_budget_us * FRAMESKIP_MAX_BACKLOG_FRAMES


\* A published count outside 0..AUDIO_BUFFER_SAMPLES.
BadCount(n) == n < 0 \/ n > AUDIO_BUFFER_SAMPLES

\* A frame has been mixed and the hand-off record still holds what was
\* published for it.
FrameMixed == acked = published /\ acked > 0

\* C15: a published count that is negative or above the buffer capacity is
\* treated as zero; audio_submit reads no chip buffer at or beyond its
\* validated count or beyond 888; a bad count or a null read pointer still
\* gives one full-length commit per frame.
C15_BadCountsContained ==
    FrameMixed =>
       /\ BadCount(saved_ym_samples) => (ym_samples = 0 /\ ym_read_end = 0)
       /\ BadCount(saved_sn_samples) => (sn_samples = 0 /\ sn_read_end = 0)
       /\ ym_read_end >= 0 /\ ym_read_end <= ym_samples
       /\ sn_read_end >= 0 /\ sn_read_end <= sn_samples
       /\ ym_read_end <= TARGET_SAMPLES_NTSC
       /\ sn_read_end <= TARGET_SAMPLES_NTSC
       /\ (~BadCount(saved_ym_samples)) => ym_samples = saved_ym_samples
       /\ (~BadCount(saved_sn_samples)) => sn_samples = saved_sn_samples
       /\ commit_calls = acked
       /\ sample_count = TARGET_SAMPLES_NTSC
       /\ DOMAIN mixed_buffer.data = 0 .. (2 * TARGET_SAMPLES_NTSC - 1)

\* The first chip published a count above the capacity and the second 500
\* samples: the frame is mixed from the second chip's 500 samples only.
C15_Witness ==
    /\ FrameMixed
    /\ saved_ym_samples = AUDIO_BUFFER_SAMPLES + 1
    /\ saved_sn_samples = 500
    /\ ym_read_end = 0 /\ sn_read_end = 500
    /\ mixed_buffer.path = "mix"
    /\ sample_count = TARGET_SAMPLES_NTSC


\* C16: on the normal path after the start-up mute, committed sample i (both
\* stereo channels) is clamp16(((ym[i] if i < ymCount else 0) + (sn[i] if
\* i < snCount else 0)) * volume >> 7) for i < available, and equals
\* committed sample available-1 from there to 888; volume 128 passes the sum
\* unchanged and volume 0 gives all zeros.
C16_MixFormula ==
    [][(acked' = acked + 1 /\ mixed_buffer'.path = "mix") =>
         LET out == mixed_buffer'.data
             ym(i) == SampleAt(gwenesis_ym2612_buffer_mem[ym_buffer'].wave, i)
             sn(i) == SampleAt(gwenesis_sn76489_buffer_mem[sn_buffer'].wave, i)
             sum(i) == (IF i < ym_samples' THEN ym(i) ELSE 0)
                       + (IF i < sn_samples' THEN sn(i) ELSE 0)
             larger == IF ym_samples' > sn_samples' THEN ym_samples'
                       ELSE sn_samples'
             available == IF larger < TARGET_SAMPLES_NTSC THEN larger
                          ELSE TARGET_SAMPLES_NTSC
         IN  /\ available > 0
             /\ \A i \in 0 .. (TARGET_SAMPLES_NTSC - 1) :
                   /\ out[2 * i] = out[2 * i + 1]
                   /\ i < available =>
                         out[2 * i] =
                            Clamp16((sum(i) * master_volume) \div 128)
                   /\ i >= available => out[2 * i] = out[2 * (available - 1)]
                   /\ (master_volume = 128 /\ i < available) =>
                         out[2 * i] = Clamp16(sum(i))
                   /\ master_volume = 0 => out[2 * i] = 0
    ]_vars

\* 400 samples of -20000 and 300 of -3 mixed at volume 100: the first sample
\* is (-20003 * 100) >> 7 and the pad holds sample 399, (-20000 * 100) >> 7.
C16_Witness ==
    /\ FrameMixed
    /\ mixed_buffer.path = "mix"
    /\ ym_samples = 400 /\ sn_samples = 300
    /\ mixed_buffer.data[0] = -15628
    /\ mixed_buffer.data[2 * 399] = -15625
    /\ mixed_buffer.data[2 * TARGET_SAMPLES_NTSC - 1] = -15625


\* C17: when audio_submit takes the silence path after a frame whose last
\* committed sample was v # 0, the committed samples start from v and decay
\* toward zero: the first sample of the silent frame lies between v and 0
\* and is not 0 (unless one fade step from v is already 0).
C17_FadeFromLastSample ==
    (FrameMixed /\ mixed_buffer.path = "fade" /\ prev_tail # 0) =>
       LET first == mixed_buffer.data[0]
           abs(v) == IF v < 0 THEN 0 - v ELSE v
       IN  /\ abs(first) <= abs(prev_tail)
           /\ first * prev_tail >= 0
           /\ FadeStep(prev_tail) # 0 => first # 0


C19_CrossfadeRamp ==
    (FrameMixed /\ mixed_buffer.path = "mix") =>
       LET out == mixed_buffer.data
           abs(v) == IF v < 0 THEN 0 - v ELSE v
           jump == out[2 * FADE_SAMPLES] - prev_tail
       IN  abs(jump) > CLICK_THRESHOLD =>
              /\ abs(out[0] - prev_tail) < abs(jump)
              /\ \A i \in 0 .. (FADE_SAMPLES - 1) :
                    (out[2 * (i + 1)] - out[2 * i]) * jump >= 0


\* C20 as stated: each hand-off flag is written by exactly one core,
\* frame_ready only by the emulation core (core 0) and audio_done only by
\* the audio core (core 1).
C20_SingleWriter ==
    /\ \A w \in frame_ready_writes : w[1] = 0
    /\ \A w \in audio_done_writes : w[1] = 1

\* C20 (amended): inside the two loops each flag is set by exactly one core
\* and cleared by exactly the other: frame_ready is set only by core 0 and
\* cleared only by core 1, audio_done is set only by core 1 and cleared only
\* by core 0; no core both sets and clears the same flag.
C20_SetByOneClearedByOther ==
    /\ frame_ready_writes \subseteq {<<0, TRUE>>, <<1, FALSE>>}
    /\ audio_done_writes \subseteq {<<1, TRUE>>, <<0, FALSE>>}

\* Two frames handed over: both flags have been set and cleared.
C20_Witness ==
    /\ frame_ready_writes = {<<0, TRUE>>, <<1, FALSE>>}
    /\ audio_done_writes = {<<1, TRUE>>, <<0, FALSE>>}
    /\ published = 2 /\ acked = 2


\* C21: at start-up the hand-off record is reset to zero/false whatever a
\* warm reset left in memory: before either core enters its loop frame_ready
\* is false, audio_done is false and both saved sample counts are 0.
C21_StartupReset ==
    epc = "init" =>
       /\ ~frame_ready
       /\ ~audio_done
       /\ saved_ym_samples = 0
       /\ saved_sn_samples = 0


\* C22: pre-roll.  The first commit fills buffer 0 and the second buffer 1;
\* playback is started exactly once, on channel A, only after both buffers
\* have been filled; no DMA transfer runs while preroll_count < 2.
C22_Preroll ==
    /\ [](preroll_count < PREROLL_BUFFERS =>
             (~audio_running /\ dma_busy = NULL /\ dma_ints = {}
              /\ played = <<>>))
    /\ []((commit_calls = 1 /\ apc = "done") =>
             (dma_buffers[0] = 0 /\ dma_buffers[1] = SILENCE))
    /\ []((commit_calls = 2 /\ apc = "done") =>
             (dma_buffers[0] = 0 /\ dma_buffers[1] = 1))
    /\ [][(~audio_running /\ audio_running') =>
             /\ dma_busy = NULL /\ dma_busy' = 0
             /\ preroll_count' = PREROLL_BUFFERS
             /\ commit_calls = 2
             /\ \A b \in 0 .. (DMA_BUFFER_COUNT - 1) : dma_buffers'[b] # SILENCE
         ]_vars
    /\ [][audio_running => (audio_running' /\ dma_busy' # NULL
                            /\ preroll_count' = preroll_count)]_vars

\* Playback has just been started on channel A with commits 0 and 1 in
\* buffers 0 and 1, nothing played yet.
C22_Witness ==
    /\ audio_running /\ dma_busy = 0 /\ preroll_count = PREROLL_BUFFERS
    /\ commit_calls = 2 /\ apc = "done"
    /\ dma_buffers[0] = 0 /\ dma_buffers[1] = 1
    /\ played = <<>>


\* C23: after the sound flush of every frame the PSG producer's sample count
\* is at least 888, whatever register writes happened during the frame: it
\* is floor(T / divisor) for the largest target T of the frame, the flush
\* target included, and sn76489_clock is sn76489_index * divisor.
C23_FlushFillsFrame ==
    epc = "wait" =>
       /\ sn76489_index >= TARGET_SAMPLES_NTSC
       /\ psg_max_target >= TARGET_SAMPLES_NTSC * AUDIO_FREQ_DIVISOR
       /\ sn76489_index * AUDIO_FREQ_DIVISOR <= psg_max_target
       /\ psg_max_target < (sn76489_index + 1) * AUDIO_FREQ_DIVISOR
       /\ sn76489_clock = sn76489_index * AUDIO_FREQ_DIVISOR

\* A second frame whose last register write came late in the frame, at
\* 1060 samples and 504 cycles: the flush adds nothing and the count is 1060.
C23_Witness ==
    /\ epc = "wait" /\ frame_num = 1
    /\ psg_max_target = 1060 * AUDIO_FREQ_DIVISOR + 504
    /\ sn76489_index = 1060
    /\ sn76489_clock = 1060 * AUDIO_FREQ_DIVISOR


\* C24: under any interleaving of cmd_queue_push (producer core) and
\* cmd_queue_pop (consumer core) accepted commands are popped in push order,
\* each exactly once; the queue never holds more than
\* AUDIO_CMD_QUEUE_SIZE - 1 entries; a push on a full queue returns at once,
\* counts one overflow and leaves the queue's contents and indices unchanged.
C24_QueueFifo ==
    /\ [](/\ pop_order_ok
          /\ commands_processed <= accepted
          /\ accepted - commands_processed <= AUDIO_CMD_QUEUE_SIZE - 1
          /\ QueueCount(cmd_write_idx, cmd_read_idx)
                = accepted - commands_processed
          /\ accepted + queue_overflows + (IF push_pc = "idle" THEN 0 ELSE 1)
                = push_calls)
    /\ [][(queue_overflows' # queue_overflows) =>
             /\ accepted - commands_processed = AUDIO_CMD_QUEUE_SIZE - 1
             /\ queue_overflows' = queue_overflows + 1
             /\ push_pc = "idle" /\ push_pc' = "idle"
             /\ UNCHANGED <<cmd_queue, cmd_write_idx, cmd_read_idx, accepted>>
         ]_vars
    /\ [][(push_pc = "idle" /\ push_calls' # push_calls
           /\ accepted - commands_processed = AUDIO_CMD_QUEUE_SIZE - 1) =>
             queue_overflows' = queue_overflows + 1]_vars

\* The queue is full (511 entries), the write index has wrapped, a push has
\* been refused and the first two commands have been popped in order.
C24_Witness ==
    /\ accepted - commands_processed = AUDIO_CMD_QUEUE_SIZE - 1
    /\ queue_overflows = 1
    /\ commands_processed = 2
    /\ cmd_write_idx = 1 /\ cmd_read_idx = 2
    /\ pop_order_ok


\* A step of the interrupt handler that serves the completion of channel c.
Serves(c) == irq_pc = c /\ c \in irq_ints /\ irq_pc' # irq_pc

\* C25: a DMA completion that finds no filled buffer (ring_count = 0) adds
\* exactly one to buffer_underruns, leaves ring_read_idx and ring_count
\* unchanged and re-arms the channel on a zero-filled buffer; a completion
\* that finds a filled buffer advances ring_read_idx by one modulo 4,
\* decrements ring_count and counts no underrun.
C25_Underrun ==
    /\ [][\A c \in Channels : (Serves(c) /\ ring_count = 0) =>
             /\ buffer_underruns' = buffer_underruns + 1
             /\ UNCHANGED <<ring_read_idx, ring_count>>
             /\ ring_buffers'[ring_read_addr'[c]] = "zero"
             /\ ring_read_addr'[c] = ring_read_idx]_vars
    /\ [][\A c \in Channels : (Serves(c) /\ ring_count > 0) =>
             /\ ring_read_idx' = (ring_read_idx + 1) % RING_BUFFER_COUNT
             /\ ring_count' = ring_count - 1
             /\ ring_read_addr'[c] = ring_read_idx'
             /\ UNCHANGED buffer_underruns]_vars
    /\ [][(\A c \in Channels : ~Serves(c)) =>
             UNCHANGED <<ring_read_idx, buffer_underruns>>]_vars

\* Both kinds of completion have happened: filled buffers were consumed
\* after the ring had wrapped, and a completion found the ring empty while
\* the writer was in the middle of a buffer.
C25_Witness ==
    /\ buffer_underruns = 1
    /\ ring_count = 0
    /\ ring_read_idx = 1
    /\ ring_write_idx = 1
    /\ buffer_sample_idx > 0
    /\ irq_pc = "idle"


\* The step on which core 0 leaves its audio wait and clears audio_done
\* (main.c 984-991).
EndsWait == epc = "wait" /\ epc' = "publish"

\* The newest frame of both chips lies in the slot the read pointers
\* designate, and the write pointers are on the other slot.
NewestPublished ==
    /\ audio_read_ym2612 # gwenesis_ym2612_buffer
    /\ audio_read_sn76489 # gwenesis_sn76489_buffer
    /\ gwenesis_ym2612_buffer_mem[audio_read_ym2612].frame
          > gwenesis_ym2612_buffer_mem[gwenesis_ym2612_buffer].frame
    /\ gwenesis_sn76489_buffer_mem[audio_read_sn76489].frame
          > gwenesis_sn76489_buffer_mem[gwenesis_sn76489_buffer].frame

\* C26 as stated: the emulation core captures the counts, records the read
\* pointers, swaps the write buffers and sets frame_ready, and only after
\* that waits for the previous audio_done and clears it: when the wait ends
\* the frame just emulated has been published.
C26_PublishThenWait == [][EndsWait => NewestPublished]_vars

\* C26, amended: the emulation core first waits for the previous audio_done
\* (not on the first frame) and clears it, and only after that captures the
\* counts and read pointers, then swaps the write buffers, then sets
\* frame_ready; from the clear until frame_ready is set both flags are
\* false.
C26_WaitThenPublish ==
    /\ [](epc \in {"publish", "swap", "ready"} =>
              ~audio_done /\ ~frame_ready)
    /\ [][EndsWait =>
             /\ audio_done \/ frame_num = 0
             /\ ~audio_done'
             /\ gwenesis_ym2612_buffer_mem[gwenesis_ym2612_buffer]
                   = [frame |-> frame_num, full |-> TRUE]
             /\ gwenesis_sn76489_buffer_mem[gwenesis_sn76489_buffer]
                   = [frame |-> frame_num, full |-> TRUE]
             /\ UNCHANGED <<recordVars, writeVars, frame_ready>>]_vars
    /\ [][(audio_write_buffer' # audio_write_buffer) =>
             /\ ~audio_done /\ ~frame_ready /\ ~frame_ready'
             /\ saved_ym_samples = ym2612_index
             /\ saved_sn_samples = sn76489_index
             /\ audio_read_ym2612 = gwenesis_ym2612_buffer
             /\ audio_read_sn76489 = gwenesis_sn76489_buffer
             /\ gwenesis_ym2612_buffer' # audio_read_ym2612
             /\ gwenesis_sn76489_buffer' # audio_read_sn76489]_vars
    /\ [][(frame_ready' /\ ~frame_ready) =>
             /\ ~audio_done
             /\ saved_ym_samples = ym2612_index
             /\ saved_sn_samples = sn76489_index
             /\ gwenesis_ym2612_buffer # audio_read_ym2612
             /\ gwenesis_sn76489_buffer # audio_read_sn76489
             /\ gwenesis_ym2612_buffer_mem[audio_read_ym2612]
                   = [frame |-> frame_num, full |-> TRUE]
             /\ gwenesis_sn76489_buffer_mem[audio_read_sn76489]
                   = [frame |-> frame_num, full |-> TRUE]]_vars

\* The second frame has been emulated, the acknowledgment of the first has
\* been seen and cleared, counts and pointers are captured and the buffers
\* swapped, and frame_ready is about to be set.
C26_Witness ==
    /\ epc = "ready"
    /\ frame_num = 1
    /\ acked = 1
    /\ ~audio_done /\ ~frame_ready
    /\ audio_read_ym2612 = 1 /\ gwenesis_ym2612_buffer = 0
    /\ saved_ym_samples = TARGET_SAMPLES_NTSC


\* The chips are producing the samples of frame frame_num, a frame after
\* the first, into the write slots.
ProducingNext ==
    /\ frame_num >= 1
    /\ gwenesis_ym2612_buffer_mem[gwenesis_ym2612_buffer]
          = [frame |-> frame_num, full |-> FALSE]
    /\ gwenesis_sn76489_buffer_mem[gwenesis_sn76489_buffer]
          = [frame |-> frame_num, full |-> FALSE]

\* C27 as stated: no sound-chip sample of frame k+1 is produced before the
\* acknowledgment of frame k, the frame last published, has been seen and
\* cleared.
C27_AckBeforeNext ==
    ProducingNext => (acked >= frame_num /\ ~audio_done)

\* C27, amended: the samples of frame k+1 are produced without waiting for
\* the acknowledgment of frame k, into the slots other than the ones
\* published for frame k, which hold frame k complete; the acknowledgment
\* of frame k-1 has been seen and cleared, and audio_done is set only once
\* frame k is acknowledged.
C27_AckBeforeSecondNext ==
    ProducingNext =>
        /\ published = frame_num
        /\ acked \in {frame_num - 1, frame_num}
        /\ (audio_done <=> acked = frame_num)
        /\ gwenesis_ym2612_buffer # audio_read_ym2612
        /\ gwenesis_sn76489_buffer # audio_read_sn76489
        /\ gwenesis_ym2612_buffer_mem[audio_read_ym2612]
              = [frame |-> frame_num - 1, full |-> TRUE]
        /\ gwenesis_sn76489_buffer_mem[audio_read_sn76489]
              = [frame |-> frame_num - 1, full |-> TRUE]

\* Core 0 produces frame 3 into slot 1 while core 1 has not yet taken
\* frame 2, published in slot 0: frame_ready is still set.
C27_Witness ==
    /\ ProducingNext
    /\ frame_num = 3
    /\ acked = 2
    /\ frame_ready /\ ~audio_done
    /\ apc = "wait"
    /\ gwenesis_ym2612_buffer = 1 /\ audio_read_ym2612 = 0


\* C28: the write-buffer slot toggles exactly once per emulated frame, at
\* the publish point, for both chips together; immediately after every
\* publish the read pointers designate the slot filled during the frame
\* just emulated and the write pointers designate the other slot, and the
\* swap is complete before frame_ready is set.
C28_SwapOncePerFrame ==
    /\ [](/\ gwenesis_ym2612_buffer = audio_write_buffer
          /\ gwenesis_sn76489_buffer = audio_write_buffer
          /\ audio_write_buffer
                = (published + (IF epc = "ready" THEN 1 ELSE 0)) % 2)
    /\ [][(audio_write_buffer' # audio_write_buffer) =>
             /\ epc = "swap"
             /\ audio_write_buffer' = 1 - audio_write_buffer
             /\ ~frame_ready /\ ~frame_ready']_vars
    /\ [][(published' # published) =>
             /\ published' = published + 1
             /\ frame_ready' /\ ~frame_ready
             /\ UNCHANGED <<writeVars, recordVars, chipVars>>
             /\ audio_read_ym2612 = 1 - audio_write_buffer
             /\ audio_read_sn76489 = 1 - audio_write_buffer
             /\ gwenesis_ym2612_buffer_mem[audio_read_ym2612]
                   = [frame |-> published, full |-> TRUE]
             /\ gwenesis_sn76489_buffer_mem[audio_read_sn76489]
                   = [frame |-> published, full |-> TRUE]]_vars

\* The third frame has just been published: the read pointers are on slot
\* 0, which holds frame 2, and the write pointers are back on slot 1.
C28_Witness ==
    /\ published = 3
    /\ epc = "top"
    /\ frame_ready
    /\ audio_write_buffer = 1
    /\ audio_read_ym2612 = 0 /\ audio_read_sn76489 = 0
    /\ gwenesis_ym2612_buffer_mem[0] = [frame |-> 2, full |-> TRUE]


\* The step on which the scanline counter reaches the visible height.
ReachesHeight == scan_line' = scan_line + 1 /\ scan_line' = screen_height

\* C29 as stated: in every frame the Z80 interrupt line is asserted when
\* the scanline counter reaches the visible height (and only then), and is
\* cleared one scanline later.
C29_AssertedEveryFrame ==
    /\ [][ReachesHeight => z80_irequest']_vars
    /\ [](z80_irequest => scan_line = screen_height)

\* C29, amended: once the Z80 has been taken out of reset, the Z80 interrupt
\* line is asserted in every frame exactly when the scanline counter reaches
\* the visible height and is cleared one scanline later; until then
\* z80_irq_line is ignored and the line stays deasserted.  The frame
\* interrupt is raised at that same scanline exactly when it is enabled,
\* and at the end of every frame the line is deasserted, for NTSC (224 of
\* 262 lines) and PAL (240 of 313).
C29_AssertedOnceStarted ==
    /\ [][ReachesHeight => (z80_irequest' <=> reset_once')]_vars
    /\ [][(z80_irequest' /\ ~z80_irequest) => ReachesHeight]_vars
    /\ [](z80_irequest =>
             scan_line = screen_height /\ epc = "emulate" /\ reset_once)
    /\ [][ReachesHeight => (vint_raised' <=> reg_vblank_interrupt')]_vars
    /\ [](vint_raised => scan_line = screen_height)
    /\ [](epc = "emulate" =>
             <<screen_height, lines_per_frame>>
                 \in {<<224, LINES_PER_FRAME_NTSC>>,
                      <<240, LINES_PER_FRAME_PAL>>})
    /\ [](scan_line = lines_per_frame => ~z80_irequest)

\* The second frame is a PAL frame that followed an NTSC one: at scanline
\* 240 the Z80 line is asserted and the frame interrupt raised.
C29_Witness ==
    /\ frame_num = 1
    /\ screen_height = 240 /\ lines_per_frame = LINES_PER_FRAME_PAL
    /\ scan_line = 240
    /\ z80_irequest /\ reset_once
    /\ vint_raised

\* C30 as stated: a line interrupt is raised only for a scanline of the
\* visible region, 0 .. visible height - 1.  (The scanline counter has been
\* incremented since.)
C30_VisibleOnly ==
    hint_raised => (scan_line - 1) \in 0 .. (screen_height - 1)

\* C30, amended: a line interrupt is raised exactly when the line counter
\* underflows (it is then reloaded from register 10), line interrupts are
\* enabled and the current scanline is one of 0 .. visible height, the
\* first line after the visible region included; no line interrupt is
\* raised for a later scanline.
C30_CountedRegionOnly ==
    /\ [][(scan_line' = scan_line + 1) =>
             LET counter == IF scan_line = 0 \/ scan_line > screen_height
                            THEN gwenesis_vdp_regs10' ELSE hint_counter
             IN  /\ hint_raised' <=>
                        /\ counter = 0
                        /\ reg_line_interrupt'
                        /\ scan_line \in 0 .. screen_height
                 /\ (hint_raised' =>
                        /\ hint_pending'
                        /\ hint_counter' = gwenesis_vdp_regs10')
                 /\ (counter = 0 => hint_counter' = gwenesis_vdp_regs10')
                 /\ (counter > 0 => hint_counter' = counter - 1)]_vars
    /\ [](hint_raised => (scan_line - 1) \in 0 .. screen_height)
    /\ [](hint_counter \in 0 .. 3)

\* A line interrupt has been raised on scanline 240 of a PAL frame, the
\* first line after the visible region, by a counter that ran down from 3.
C30_Witness ==
    /\ hint_raised
    /\ screen_height = 240
    /\ scan_line = 241
    /\ gwenesis_vdp_regs10 = 3
    /\ frame_num = 1


\* C31: m68k_run(target) and z80_run(target), called with the CPU's cycle
\* counter already at or past target, execute no instruction and leave the
\* cycle counter unchanged, whatever the enable, reset or bus-request
\* state.  (cpu_call records the counter and the instruction count before
\* the last call.)
C31_NoOpAtTarget ==
    /\ (cpu_call.cpu = "m68k" /\ cpu_call.before >= cpu_call.target =>
           m68k_cycles = cpu_call.before /\ m68k_execs = cpu_call.execs)
    /\ (cpu_call.cpu = "z80" /\ cpu_call.before >= cpu_call.target =>
           zclk = cpu_call.before /\ z80_execs = cpu_call.execs)


\* C32: in the adaptive controller, after any frame in which the emulation
\* core waited more than 500 microseconds for audio_done, the backlog is
\* zero from the end of that wait to the start of the next frame, whatever
\* the frame's work time was.
C32_LongWaitClearsBacklog ==
    (enable_adaptive /\ audio_wait_us_local > 500
        /\ epc \in {"publish", "swap", "ready", "top"}) => backlog_us = 0

\* The third frame took 60000 microseconds of work, far above its budget,
\* and then waited 900 microseconds for audio: the next frame starts with
\* no backlog.
C32_Witness ==
    /\ enable_adaptive
    /\ epc = "top"
    /\ frame_num = 3
    /\ frame_work_us = 60000
    /\ audio_wait_us_local = 900
    /\ backlog_us = 0

\* The step at the top of a frame that decides to skip it with a backlog.
SkipsWithBacklog ==
    /\ enable_adaptive
    /\ epc = "top" /\ epc' = "emulate"
    /\ ~render_this_frame'
    /\ backlog_us > 0

\* C33: in the adaptive controller, whenever a frame is skipped while
\* backlog > 0, the backlog is reduced at once by min(backlog, 3/2 x
\* estimated render cost), which is more than one estimated render cost
\* unless the backlog runs out, and it never goes below zero.
C33_SkipPaydown ==
    [][SkipsWithBacklog =>
          LET cost == IF render_cost_ema_us # 0 THEN render_cost_ema_us
                      ELSE FRAMESKIP_RENDER_COST_DEFAULT_US
              pay == (3 * cost) \div 2
              paid == IF backlog_us < pay THEN backlog_us ELSE pay
          IN  /\ backlog_us' = backlog_us - paid
              /\ backlog_us' >= 0
              /\ (backlog_us' > 0 => paid > cost)]_vars

\* A second frame in a row has been skipped with a backlog that 3/2 of the
\* estimated render cost did not use up.
C33_Witness ==
    /\ enable_adaptive
    /\ epc = "emulate"
    /\ ~render_this_frame
    /\ backlog_us > 0
    /\ consecutive_skipped_frames > 0


\* In the statements ops of a handler, every pending channel's bit is
\* acknowledged, and before every other statement made for that channel.
AckFirst(ops, ints) ==
    \A ch \in ints :
        \E i \in 1 .. Len(ops) :
            /\ ops[i] = <<"ack", ch>>
            /\ \A j \in 1 .. Len(ops) : (ops[j][2] = ch /\ j # i) => i < j

NonVideo(calls) == [calls EXCEPT !.render = 0]

C36_WriteBufferUntouched ==
    \A c \in Channels : ring_read_addr[c] # ring_write_idx


\* C37: in every frame in which the Z80 is running, the scheduler calls
\* z80_run at least once while the Z80 interrupt line is asserted, between
\* z80_irq_line(1) at the visible height and z80_irq_line(0) one scanline
\* later: the line is never cleared with no z80_run since it was asserted.
C37_RunWhileAsserted == z80_irq_served # "missed"


\* C38: write_to_ring_buffer loses no sample: every sample of every chunk
\* it is handed is stored in a ring buffer, also when a 64-sample chunk
\* straddles the end of an 888-sample buffer.
C38_NoSampleDropped == chunk_dropped = 0


\* C39: ring accounting: from audio_rt_core1_main's start onward, under any
\* interleaving of the producer and the completion handler, ring_count stays
\* within 0 .. RING_BUFFER_COUNT - 1 and equals (ring_write_idx -
\* ring_read_idx) mod RING_BUFFER_COUNT, and the producer stores a chunk only
\* while ring_count < RING_BUFFER_COUNT - 1.
C39_RingAccounting ==
    /\ [](ring_count \in 0 .. (RING_BUFFER_COUNT - 1))
    /\ [](ring_count = (ring_write_idx - ring_read_idx) % RING_BUFFER_COUNT)
    /\ [][(buffer_sample_idx' # buffer_sample_idx
              \/ ring_write_idx' # ring_write_idx)
          => ring_count < RING_BUFFER_COUNT - 1]_vars

\* The producer has filled the ring to its limit of three waiting buffers
\* after the handler has taken buffers from it.
C39_Witness ==
    /\ ring_count = RING_BUFFER_COUNT - 1
    /\ ring_read_idx = 2
    /\ ring_write_idx = 1


====
